---- MODULE Spec2Model ----
(***************************************************************************)
(* A model of thetadata-api: the data repair engine (corrector.py), the    *)
(* expiration selector (calendar_utils.py) and the underlying-price        *)
(* derivation (client.py).                                                 *)
(*                                                                         *)
(* Tables are records [cols, rows]: cols is the sequence of column names   *)
(* (DataFrame.columns) and rows a sequence of functions from column name   *)
(* to cell value.  Cells are integers; the missing value NaN is the        *)
(* integer -1, which no price, timestamp, count or strike takes.           *)
(* Dates are day numbers, day 0 being a Monday, so that date.weekday() is  *)
(* d % 7 and timedelta arithmetic is integer arithmetic.                   *)
(***************************************************************************)
EXTENDS Integers, Sequences, FiniteSets, TLC

VARIABLES
    \* ---- repair (corrector.fix_dataframe) ----
    df,          \* the table handed to fix_dataframe (the caller's object)
    out,         \* the table fix_dataframe returned
    out2,        \* the table returned by a second application, to out
    rpc,         \* "input" | "fixed" | "refixed", "off" in the other specifications
    \* ---- selection (calendar_utils.select_target_expirations) ----
    symbol,        \* the symbol argument
    current_date,  \* the current_date argument
    available,     \* the available argument, as the set the code makes of it
    closed_dates,  \* the closed_dates argument
    targets,       \* the list select_target_expirations returned
    spc,           \* "input" | "done" | "off"
    \* ---- derivation (ThetaClient.fetch_underlying_ohlc) ----
    dpc,           \* "start" | "strikes" | "greeks" | "returned" | "raised" | "off"
    date,          \* the date argument
    exps,          \* the list get_expirations returned
    exp_i,         \* position of target_exp in exps[:2] (1-based)
    right_i,       \* position of right in ["C", "P"] (1-based)
    strikes,       \* the list get_strikes returned for target_exp
    target_strike, \* the strike picked for target_exp
    skipped,       \* positions of the expirations that had no strikes
    requests,      \* the strike and Greeks requests issued, in order
    raw_items,     \* the rows of the last Greeks response parsed
    candles,       \* the aggregated table of that response, before repair
    error,         \* the exception the call raised, "" when none
    ohlc,          \* UnderlyingData.data of the value returned
    \* ---- fetch (utils.timed_get under its retry decorator) ----
    fpc,            \* "idle" | "attempt" | "returned" | "raised" | "off"
    calls,          \* the number of fetch calls started
    attempt_number, \* the attempt number of the retry state of the call
    http_log,       \* the HTTP attempts made, in order, over all calls
    body,           \* the JSON body the call returned, NoBody when none
    rows_used,      \* the rows parse_response handed to the caller
    ferror,         \* the exception the call raised, "" when none
    stats_rows,     \* the rows appended to the request statistics file
    audit_rows,     \* the rows appended to the retry audit file
    \* ---- realtime (RealtimeFeed) ----
    rt_pc,            \* "start" | "polling" | "sleeping" | "closing" |
                      \* "stopped" | "failed" | "session" | "off"
    rt_symbols,       \* self.symbols
    sym_i,            \* position in self.symbols of the symbol being polled
    cycle,            \* the number of poll cycles begun
    rt_requests,      \* the poll requests issued, in order
    rt_responses,     \* what each poll request answered so far ended with
    rt_error,         \* the exception that ended run_forever, "" when none
    cancelled,        \* the task running run_forever was cancelled
    client_closed,    \* self.client.close() has completed
    session_data,     \* self.session_data: a table per key
    last_candle_time, \* self.last_candle_time: a time per key
    updates,          \* the number of calls of _update_session
    upd_key,          \* the key argument of the last call of _update_session
    upd_df,           \* the df argument of the last call of _update_session
    \* ---- batch (bulk._worker_main, Pipeline.run_underlying_pipeline) ----
    wpc,             \* "holidays" | "expirations" | "data" | "closing" |
                     \* "done" | "off"
    w_symbol,        \* the symbol argument of the worker
    w_start,         \* the start_date argument
    w_end,           \* the end_date argument
    w_years,         \* years_to_fetch, as a list
    year_i,          \* position of year in years_to_fetch
    w_closed,        \* closed_dates of the worker
    trading_days,    \* trading_days of the worker
    day_i,           \* position of day in trading_days
    exps_str,        \* exps_str of the day: what get_expirations returned
    w_targets,       \* targets of the day
    target_i,        \* position of exp in targets
    dtype_i,         \* position of dtype in ENDPOINTS
    w_requests,      \* the requests the worker issued, in order
    w_client_closed, \* the worker's client.close() has completed
    ppc,             \* "underlying" | "opt_expirations" | "opt_strikes" |
                     \* "finished" | "off"
    p_symbols,       \* the symbols argument of run_underlying_pipeline
    p_date,          \* the date argument
    p_i,             \* position of symbol in symbols
    p_outcomes,      \* what fetch_underlying_ohlc ended with, per symbol
    p_opt_symbols,   \* the symbols argument of run_option_pipeline
    p_j,             \* position of symbol in the option symbols
    p_requests,      \* the requests run_option_pipeline issued, in order
    error_log,       \* the records of logger.error, in order
    files,           \* the files written, in order
    \* ---- audit sinks (RequestStats, RetryAuditLog) under parallel workers ----
    proc_pc,         \* per worker process: "stats" | "create_stats" |
                     \* "head_stats" | "audit" | "create_audit" |
                     \* "head_audit" | "ready" | "done"
    proc_fetches,    \* per worker process: the HTTP attempts it has made
    proc_raised,     \* per worker process: the exception of the attempt under
                     \* way that log_retry has yet to record, "" when none
    sink,            \* per audit file: whether it exists, and its rows
    \* ---- corrector.fix_ohlc_files ----
    fix_pc,          \* "checking" | "files" | "finished" | "off"
    fix_symbols,     \* the symbols argument
    fix_i,           \* position of symbol in symbols
    fix_pending,     \* the files of symbol_dir that rglob has yet to yield
    disk,            \* the Parquet files under data_dir, by path
    fix_log,         \* the [FIXED] and error records of the logger, in order
    total_files_fixed

repairVars == <<df, out, out2, rpc>>
selectVars == <<symbol, current_date, available, closed_dates, targets, spc>>
deriveVars == <<dpc, date, exps, exp_i, right_i, strikes, target_strike,
                skipped, requests, raw_items, candles, error, ohlc>>
fetchVars == <<fpc, calls, attempt_number, http_log, body, rows_used,
               ferror, stats_rows, audit_rows>>

realtimeVars == <<rt_pc, rt_symbols, sym_i, cycle, rt_requests,
                  rt_responses, rt_error,
                  cancelled, client_closed, session_data, last_candle_time,
                  updates, upd_key, upd_df>>

workerVars == <<wpc, w_symbol, w_start, w_end, w_years, year_i, w_closed,
                trading_days, day_i, exps_str, w_targets, target_i, dtype_i,
                w_requests, w_client_closed>>
pipelineVars == <<ppc, p_symbols, p_date, p_i, p_outcomes,
                  p_opt_symbols, p_j, p_requests>>
batchVars == <<workerVars, pipelineVars, error_log, files>>
sinkVars == <<proc_pc, proc_fetches, proc_raised, sink>>
fixVars == <<fix_pc, fix_symbols, fix_i, fix_pending, disk, fix_log,
             total_files_fixed>>

\* The variables of the other components, which a step of one leaves alone.
exceptRepair == <<selectVars, deriveVars, fetchVars, realtimeVars, batchVars,
                  sinkVars, fixVars>>
exceptSelect == <<repairVars, deriveVars, fetchVars, realtimeVars, batchVars,
                  sinkVars, fixVars>>
exceptDerive == <<repairVars, selectVars, fetchVars, realtimeVars, batchVars,
                  sinkVars, fixVars>>
exceptFetch == <<repairVars, selectVars, deriveVars, realtimeVars, batchVars,
                 sinkVars, fixVars>>
exceptRealtime == <<repairVars, selectVars, deriveVars, fetchVars, batchVars,
                    sinkVars, fixVars>>
exceptBatch == <<repairVars, selectVars, deriveVars, fetchVars, realtimeVars,
                 sinkVars, fixVars>>
exceptSinks == <<repairVars, selectVars, deriveVars, fetchVars, realtimeVars,
                 batchVars, fixVars>>
exceptFix == <<repairVars, selectVars, deriveVars, fetchVars, realtimeVars,
               batchVars, sinkVars>>

vars == <<df, out, out2, rpc,
          symbol, current_date, available, closed_dates, targets, spc,
          dpc, date, exps, exp_i, right_i, strikes, target_strike, skipped,
          requests, raw_items, candles, error, ohlc,
          fpc, calls, attempt_number, http_log, body, rows_used,
          ferror, stats_rows, audit_rows,
          rt_pc, rt_symbols, sym_i, cycle, rt_requests, rt_responses, rt_error,
          cancelled, client_closed, session_data, last_candle_time,
          updates, upd_key, upd_df,
          wpc, w_symbol, w_start, w_end, w_years, year_i, w_closed,
          trading_days, day_i, exps_str, w_targets, target_i, dtype_i,
          w_requests, w_client_closed,
          ppc, p_symbols, p_date, p_i, p_outcomes,
          p_opt_symbols, p_j, p_requests, error_log, files,
          proc_pc, proc_fetches, proc_raised, sink,
          fix_pc, fix_symbols, fix_i, fix_pending, disk, fix_log,
          total_files_fixed>>

----------------------------------------------------------------------------
(* Bounds *)

\* Largest number of rows of an input table of several columns.
MaxRows == 2

\* Largest number of rows of an input table of a single column.
MaxGapRows == 5

\* Largest number of dates in the available expirations of a selection.
MaxAvail == 3

\* Largest number of entries of an expiration listing.
MaxExps == 3

\* Largest number of entries of a strike listing.
MaxStrikes == 3

\* Largest number of rows of a Greeks response.
MaxGreeksRows == 2

\* Largest number of fetch calls made one after the other.
MaxFetches == 2

\* Largest number of symbols a realtime feed tracks.
MaxSymbols == 2

\* Largest number of poll cycles a realtime feed begins.
MaxCycles == 2

\* Largest number of calls of _update_session.
MaxUpdates == 2

\* Largest number of days from start_date to end_date of a worker.
MaxSpan == 3

\* Largest number of rows of a Greeks response of several minutes.
MaxObservations == 3

\* Largest number of worker processes that run in parallel.
MaxProcs == 2

\* Largest number of HTTP attempts a worker process makes.
MaxProcFetches == 1

----------------------------------------------------------------------------
(* Generic helpers *)

Range(s) == {s[i] : i \in DOMAIN s}

SetMin(S) == CHOOSE x \in S : \A y \in S : x <= y

SetMax(S) == CHOOSE x \in S : \A y \in S : x >= y

----------------------------------------------------------------------------
(* corrector.py *)

\* np.nan: the missing value of a cell.
NaN == -1

\* pd.isna / pd.notna on a scalar cell.
isna(v) == v = NaN

notna(v) == v # NaN

\* The designated columns in declaration order (the literal list of line 16).
DeclaredCols == <<"open", "high", "low", "close", "underlying_price">>

\* Column names of the model in ascending string order: what Index.union,
\* and with it Series.align(join="outer"), sorts an index of names into.
SortedNames ==
    <<"close", "high", "low", "open", "strike", "timestamp",
      "underlying_price", "volume">>

\* Index.union(other) with the default sort=None: the sorted union of two
\* indexes that are not equal.
IndexUnion(a, b) ==
    LET In(c) == c \in Range(a) \cup Range(b)
    IN  SelectSeq(SortedNames, In)

\* A bug in line 16: every column is taken for a designated one (as
\* utils.fix_empty_rows takes every numeric column).
PriceColsEveryColumn(t) == t.cols

\* cols = [c for c in [...] if c in df_clean.columns]
PriceCols(t) ==
    LET Present(c) == c \in Range(t.cols)
    IN  SelectSeq(DeclaredCols, Present)

\* df.empty: some axis has length 0.
IsEmpty(t) == Len(t.rows) = 0 \/ Len(t.cols) = 0

\* A bug in line 22: df_clean = df_clean.replace(0, np.nan), which also
\* takes the zeros of the other columns for missing.
ReplaceZeroEverywhere(t, cols) ==
    [t EXCEPT !.rows =
        [i \in DOMAIN t.rows |->
            [c \in DOMAIN t.rows[i] |->
                IF t.rows[i][c] = 0 THEN NaN ELSE t.rows[i][c]]]]

\* df_clean[cols] = df_clean[cols].replace(0, np.nan)
ReplaceZero(t, cols) ==
    [t EXCEPT !.rows =
        [i \in DOMAIN t.rows |->
            [c \in DOMAIN t.rows[i] |->
                IF c \in Range(cols) /\ t.rows[i][c] = 0
                THEN NaN ELSE t.rows[i][c]]]]

\* The index of row.combine_first(pd.Series(row[cols])): row.index itself
\* when the two indexes are equal, their sorted union otherwise.
CombineFirstIndex(tcols, cols) ==
    IF tcols = cols THEN tcols ELSE IndexUnion(tcols, cols)

\* row.combine_first(pd.Series(row[cols])).dropna().iloc[0]: the values are
\* the row's own (the other series holds the same cells), so this is the
\* first non-missing cell of the whole row in the combined index's order.
FirstNotNa(row, tcols, cols) ==
    LET Valid(c) == notna(row[c])
        kept == SelectSeq(CombineFirstIndex(tcols, cols), Valid)
    IN  row[kept[1]]

\* valid_val of line 28.
ValidVal(row, tcols, cols) ==
    IF "close" \in DOMAIN row /\ notna(row["close"])
    THEN row["close"]
    ELSE FirstNotNa(row, tcols, cols)

\* The body of the iterrows loop for one row (lines 26-29).
RepairRow(row, tcols, cols) ==
    IF /\ \E c \in Range(cols) : isna(row[c])
       /\ ~ \A c \in Range(cols) : isna(row[c])
    THEN [c \in DOMAIN row |->
            IF c \in Range(cols) /\ isna(row[c])
            THEN ValidVal(row, tcols, cols) ELSE row[c]]
    ELSE row

\* The iterrows loop (lines 25-29): each row is repaired from its own cells.
IntraRowRepair(t, cols) ==
    [t EXCEPT !.rows =
        [i \in DOMAIN t.rows |-> RepairRow(t.rows[i], t.cols, cols)]]

\* A gap pass without its backward stage: the column as it is.
NoBfill(rows, c) == [i \in DOMAIN rows |-> rows[i][c]]

\* DataFrame.bfill on one column: a missing cell takes the nearest later
\* non-missing value of the column, and stays missing when there is none.
Bfill(rows, c) ==
    [i \in DOMAIN rows |->
        LET later == {j \in i..Len(rows) : notna(rows[j][c])}
        IN  IF later = {} THEN NaN ELSE rows[SetMin(later)][c]]

\* DataFrame.ffill on one column, given as the sequence of its cells.
Ffill(col) ==
    [i \in DOMAIN col |->
        LET earlier == {j \in 1..i : notna(col[j])}
        IN  IF earlier = {} THEN NaN ELSE col[SetMax(earlier)]]

\* null_mask = df_clean[cols].isna().all(axis=1); null_mask.any()
HasNullRow(t, cols) ==
    \E i \in DOMAIN t.rows : \A c \in Range(cols) : isna(t.rows[i][c])

\* Lines 32-34: when some row is missing in all designated columns,
\* df_clean[cols] = df_clean[cols].bfill().ffill().
GapRepair(t, cols) ==
    IF HasNullRow(t, cols)
    THEN [t EXCEPT !.rows =
            [i \in DOMAIN t.rows |->
                [c \in DOMAIN t.rows[i] |->
                    IF c \in Range(cols)
                    THEN Ffill(Bfill(t.rows, c))[i]
                    ELSE t.rows[i][c]]]]
    ELSE t

\* fix_dataframe(df): the table it returns.
fix_dataframe(t) ==
    IF IsEmpty(t) THEN t
    ELSE LET cols == PriceCols(t)
         IN  IF cols = <<>> THEN t
             ELSE GapRepair(IntraRowRepair(ReplaceZero(t, cols), cols), cols)

\* The caller's table after the call: fix_dataframe works on df.copy()
\* (line 15) and returns df itself only when it is empty, untouched.
CallerTableAfter(t) == t

----------------------------------------------------------------------------
(* Inputs of the repair specification *)

\* Values of a designated cell: missing, the zero artifact, two prices.
PriceValues == {NaN, 0, 1, 2}

\* Values of a non-designated cell (timestamp, volume, strike): missing, a
\* legitimate zero, and a value no designated cell of an input holds.
OtherValues == {NaN, 0, 7}

\* Column layouts of the input tables.
Layouts ==
    { <<"timestamp", "open", "close">>,
      <<"strike", "close", "underlying_price">>,
      <<"open", "high", "close">>,
      <<"volume", "close">>,
      <<"close">>,
      <<"timestamp", "volume">> }

CellValues(c) == IF c \in Range(DeclaredCols) THEN PriceValues ELSE OtherValues

RowsOf(L) ==
    {r \in [Range(L) -> PriceValues \cup OtherValues] :
        \A c \in Range(L) : r[c] \in CellValues(c)}

\* The number of rows an input table of layout L may have.
RowCounts(L) == 0..(IF Len(L) = 1 THEN MaxGapRows ELSE MaxRows)

NoTable == [cols |-> <<>>, rows |-> <<>>]

\* No JSON body.
NoBody == [none |-> TRUE]

----------------------------------------------------------------------------
(* The repair specification: fix_dataframe applied to an input table, then *)
(* to its own result.                                                      *)

IdleRepair ==
    /\ df = NoTable /\ out = NoTable /\ out2 = NoTable /\ rpc = "off"

IdleFetch ==
    /\ fpc = "off" /\ calls = 0 /\ attempt_number = 0 /\ http_log = <<>>
    /\ body = NoBody /\ rows_used = <<>> /\ ferror = ""
    /\ stats_rows = <<>> /\ audit_rows = <<>>

\* A dict with no key.
EmptyDict == [k \in {} |-> 0]

IdleRealtime ==
    /\ rt_pc = "off" /\ rt_symbols = <<>> /\ sym_i = 0 /\ cycle = 0
    /\ rt_requests = <<>> /\ rt_responses = <<>>
    /\ rt_error = "" /\ cancelled = FALSE
    /\ client_closed = FALSE /\ session_data = EmptyDict
    /\ last_candle_time = EmptyDict
    /\ updates = 0 /\ upd_key = "" /\ upd_df = <<>>

IdleWorker ==
    /\ wpc = "off" /\ w_symbol = "" /\ w_start = 0 /\ w_end = 0
    /\ w_years = <<>> /\ year_i = 0 /\ w_closed = {} /\ trading_days = <<>>
    /\ day_i = 0 /\ w_targets = <<>> /\ target_i = 0 /\ dtype_i = 0
    /\ w_requests = <<>> /\ w_client_closed = FALSE
    /\ exps_str = <<>>

IdlePipeline ==
    /\ ppc = "off" /\ p_symbols = <<>> /\ p_date = 0 /\ p_i = 0
    /\ p_outcomes = <<>>
    /\ p_opt_symbols = <<>> /\ p_j = 0 /\ p_requests = <<>>

IdleBatch ==
    /\ IdleWorker /\ IdlePipeline /\ error_log = <<>> /\ files = <<>>

IdleDerive ==
    /\ dpc = "off" /\ date = 0 /\ exps = <<>> /\ exp_i = 0 /\ right_i = 0
    /\ strikes = <<>> /\ target_strike = 0 /\ skipped = {} /\ requests = <<>>
    /\ raw_items = <<>> /\ candles = [cols |-> <<>>, rows |-> <<>>]
    /\ error = "" /\ ohlc = [cols |-> <<>>, rows |-> <<>>]

IdleSelect ==
    /\ symbol = "" /\ current_date = 0 /\ available = {}
    /\ closed_dates = {} /\ targets = <<>> /\ spc = "off"

IdleSinks ==
    /\ proc_pc = EmptyDict /\ proc_fetches = EmptyDict
    /\ proc_raised = EmptyDict /\ sink = EmptyDict

IdleFix ==
    /\ fix_pc = "off" /\ fix_symbols = <<>> /\ fix_i = 0 /\ fix_pending = {}
    /\ disk = EmptyDict /\ fix_log = <<>> /\ total_files_fixed = 0

\* Every component but the named one is idle.
IdleExcept(component) ==
    /\ IF component = "repair" THEN TRUE ELSE IdleRepair
    /\ IF component = "select" THEN TRUE ELSE IdleSelect
    /\ IF component = "derive" THEN TRUE ELSE IdleDerive
    /\ IF component = "fetch" THEN TRUE ELSE IdleFetch
    /\ IF component = "realtime" THEN TRUE ELSE IdleRealtime
    /\ IF component = "batch" THEN TRUE ELSE IdleBatch
    /\ IF component = "sinks" THEN TRUE ELSE IdleSinks
    /\ IF component = "files" THEN TRUE ELSE IdleFix

InitRepair ==
    /\ IdleExcept("repair")
    /\ \E L \in Layouts : \E n \in RowCounts(L) : \E rs \in [1..n -> RowsOf(L)] :
          df = [cols |-> L, rows |-> rs]
    /\ out = NoTable
    /\ out2 = NoTable
    /\ rpc = "input"

Repair ==
    /\ rpc = "input"
    /\ out' = fix_dataframe(df)
    /\ df' = CallerTableAfter(df)
    /\ rpc' = "fixed"
    /\ UNCHANGED <<out2, exceptRepair>>

RepairAgain ==
    /\ rpc = "fixed"
    /\ out2' = fix_dataframe(out)
    /\ rpc' = "refixed"
    /\ UNCHANGED <<df, out, exceptRepair>>

NextRepair == Repair \/ RepairAgain

SpecRepair == InitRepair /\ [][NextRepair]_vars

----------------------------------------------------------------------------
(* Claims about repair *)

\* A cell that is the zero artifact or missing.
ZeroOrMissing(v) == v = 0 \/ isna(v)

\* Column c of table t is 0 or missing in every row.
ColumnAllBad(t, c) == \A i \in DOMAIN t.rows : ZeroOrMissing(t.rows[i][c])

\* Some cell of column c of table t is 0 or missing.
ColumnSomeBad(t, c) == \E i \in DOMAIN t.rows : ZeroOrMissing(t.rows[i][c])

\* C1: after repair no cell of a designated column is 0 or missing, unless
\* the column was 0 or missing in every row of the input, whatever the
\* non-designated columns hold.
C1_NoZeroOrMissingAfterRepair ==
    rpc # "input" =>
        \A c \in Range(PriceCols(df)) :
            ~ ColumnAllBad(df, c) => ~ ColumnSomeBad(out, c)

\* C2: repair is idempotent: repairing the repaired table returns it cell
\* for cell.
C2_RepairIdempotent == rpc = "refixed" => out2 = out

\* No designated column of t holds a zero or a missing value.
Clean(t) == \A c \in Range(PriceCols(t)) : ~ ColumnSomeBad(t, c)

\* C3: a table whose designated columns hold no zero and no missing value
\* is returned unchanged, every cell equal to the input's.
C3_CleanTableUnchanged == (rpc # "input" /\ Clean(df)) => out = df

C3_Witness ==
    /\ rpc = "fixed"
    /\ Clean(df)
    /\ Len(df.rows) = 2
    /\ df.cols = <<"timestamp", "open", "close">>
    /\ df.rows[1]["timestamp"] = 0
    /\ df.rows[2]["timestamp"] = NaN
    /\ df.rows[1]["open"] # df.rows[1]["close"]
    /\ out = df

\* The frame of repair: t2 has the rows of t1 in the same order, equal to
\* t1 in every cell except designated cells that were 0 or missing in t1.
SameButRepaired(t1, t2) ==
    /\ t2.cols = t1.cols
    /\ Len(t2.rows) = Len(t1.rows)
    /\ \A i \in DOMAIN t1.rows :
        /\ DOMAIN t2.rows[i] = DOMAIN t1.rows[i]
        /\ \A c \in DOMAIN t1.rows[i] :
              t2.rows[i][c] # t1.rows[i][c] =>
                  c \in Range(DeclaredCols) /\ ZeroOrMissing(t1.rows[i][c])

\* C4: repair leaves the caller's table as it was, and the table it returns
\* differs from it only in designated cells that were 0 or missing: rows,
\* their order and every non-designated field (zeros included) are kept.
C4_RepairFrame ==
    [][(rpc = "input" /\ rpc' = "fixed") =>
            (df' = df /\ SameButRepaired(df, out'))]_vars

C4_Witness ==
    /\ rpc = "fixed"
    /\ df.cols = <<"volume", "close">>
    /\ Len(df.rows) = 2
    /\ df.rows[1]["volume"] = 0 /\ df.rows[1]["close"] = 0
    /\ df.rows[2]["volume"] = 7 /\ df.rows[2]["close"] = 2
    /\ out.rows[1]["volume"] = 0 /\ out.rows[1]["close"] = 2
    /\ out.rows[2] = df.rows[2]

----------------------------------------------------------------------------
(* calendar_utils.py *)

\* The None a function returns when it finds no date.
NoDate == -1

\* The search limit of get_next_valid_vix_expiration: range(45).
Horizon == 45

\* date.weekday(): 0 is Monday, 6 is Sunday (day 0 is a Monday).
weekday(d) == d % 7

\* A bug: the scan stops at Tuesday, a day short of the week's Monday.
ScanBackToTuesday(candidate, friday, closed) ==
    LET open == {d \in (friday - 3)..candidate :
                    weekday(d) < 5 /\ d \notin closed}
    IN  IF open = {} THEN NoDate ELSE SetMax(open)

\* The while loop of last_trading_day_of_week from a candidate on.
RECURSIVE ScanBackFrom(_, _, _)
ScanBackFrom(candidate, friday, closed) ==
    IF candidate >= friday - 4
    THEN IF weekday(candidate) < 5 /\ candidate \notin closed
         THEN candidate
         ELSE ScanBackFrom(candidate - 1, friday, closed)
    ELSE NoDate

\* A bug: the week's Friday is returned without a look at the closed dates.
last_trading_day_ignoring_closed(current, closed) ==
    current + (4 - weekday(current))

\* last_trading_day_of_week(current, closed_dates)
last_trading_day_of_week(current, closed) ==
    LET friday == current + (4 - weekday(current))
    IN  ScanBackFrom(friday, friday, closed)

\* A bug: two days after current, whatever its weekday.
wednesday_two_days_on(current) == current + 2

\* wednesday_of_week(current)
wednesday_of_week(current) == current + (2 - weekday(current))

\* The for loop of get_next_valid_vix_expiration with k iterations done.
RECURSIVE SearchFrom(_, _, _)
SearchFrom(candidate, k, avail_set) ==
    IF k < Horizon
    THEN IF candidate \in avail_set
         THEN candidate
         ELSE SearchFrom(candidate + 1, k + 1, avail_set)
    ELSE NoDate

\* A bug: the search goes one day past its limit.
get_next_one_day_past_limit(current, avail_set) ==
    LET found == {d \in avail_set : current < d /\ d <= current + Horizon + 1}
    IN  IF found = {} THEN NoDate ELSE SetMin(found)

\* A bug: the search starts at current_date itself.
get_next_from_current_date(current, avail_set) ==
    SearchFrom(current, 0, avail_set)

\* get_next_valid_vix_expiration(current_date, avail_set)
get_next_valid_vix_expiration(current, avail_set) ==
    SearchFrom(current + 1, 0, avail_set)

\* A bug: the list is returned in descending order.
RECURSIVE sorted_descending(_)
sorted_descending(S) ==
    IF S = {} THEN <<>>
    ELSE <<SetMax(S)>> \o sorted_descending(S \ {SetMax(S)})

\* sorted(list(targets)): the elements of a set in ascending order.
RECURSIVE sorted(_)
sorted(S) ==
    IF S = {} THEN <<>>
    ELSE <<SetMin(S)>> \o sorted(S \ {SetMin(S)})

\* The symbols of the same-day + weekly branch (line 32).
SameDayWeeklySymbols == {"SPX", "SPXW", "SPY", "QQQ"}

\* Lines 33-36: the targets of the same-day + weekly branch.
SameDayWeeklyTargets(current, avail_set, closed) ==
    LET weekly == last_trading_day_of_week(current, closed)
    IN  (IF current \in avail_set THEN {current} ELSE {})
        \cup (IF weekly # NoDate /\ weekly # current /\ weekly \in avail_set
              THEN {weekly} ELSE {})

\* if next_exp: targets.add(next_exp)
NextExpTargets(current, avail_set) ==
    LET next_exp == get_next_valid_vix_expiration(current, avail_set)
    IN  IF next_exp # NoDate THEN {next_exp} ELSE {}

\* Lines 39-50: the targets of the VIX branch.
VixTargets(current, avail_set, closed) ==
    LET wed_this_week == wednesday_of_week(current)
    IN  IF weekday(current) \in {0, 1}
        THEN IF wed_this_week \in avail_set /\ wed_this_week \notin closed
             THEN {wed_this_week}
             ELSE NextExpTargets(current, avail_set)
        ELSE NextExpTargets(current, avail_set)

\* A bug: the VIX branch is an else, taken by every other symbol.
select_with_vix_as_default(sym, current, avail_set, closed) ==
    sorted(IF sym \in SameDayWeeklySymbols
           THEN SameDayWeeklyTargets(current, avail_set, closed)
           ELSE VixTargets(current, avail_set, closed))

\* select_target_expirations(symbol, current_date, available, closed_dates),
\* with available given as avail_set = set(available).
select_target_expirations(sym, current, avail_set, closed) ==
    sorted(IF sym \in SameDayWeeklySymbols
           THEN SameDayWeeklyTargets(current, avail_set, closed)
           ELSE IF sym = "VIX"
                THEN VixTargets(current, avail_set, closed)
                ELSE {})

----------------------------------------------------------------------------
(* Inputs of the selection specification *)

Symbols == {"SPX", "SPXW", "SPY", "QQQ", "VIX", "AAPL"}

\* The current dates: Monday to Sunday of one week.
CurrentDates == 7..13

\* The dates an available list is drawn from: that week, the Monday after
\* it, and the two dates at the end of the search horizon.
AvailCandidates(current) == (7..14) \cup {current + Horizon, current + Horizon + 1}

\* The dates a closed set is drawn from: the weekdays of that week.
ClosedCandidates == 7..11

----------------------------------------------------------------------------
(* The selection specification: select_target_expirations applied to one   *)
(* input.                                                                  *)

InitSelect ==
    /\ IdleExcept("select")
    /\ symbol \in Symbols
    /\ current_date \in CurrentDates
    /\ available \in {A \in SUBSET AvailCandidates(current_date) :
                          Cardinality(A) <= MaxAvail}
    /\ closed_dates \in SUBSET ClosedCandidates
    /\ targets = <<>>
    /\ spc = "input"

Select ==
    /\ spc = "input"
    /\ targets' = select_target_expirations(symbol, current_date,
                                            available, closed_dates)
    /\ spc' = "done"
    /\ UNCHANGED <<symbol, current_date, available, closed_dates,
                   exceptSelect>>

NextSelect == Select

SpecSelect == InitSelect /\ [][NextSelect]_vars

----------------------------------------------------------------------------
(* Claims about selection *)

\* Monday to Friday of the week of date d.
WeekdaysOfWeek(d) == (d - weekday(d))..(d - weekday(d) + 4)

\* The last trading day of the week of d: the latest of its weekdays that
\* is not closed, as a set (empty when all five are closed).
LastTradingDay(d, closed) ==
    LET open == WeekdaysOfWeek(d) \ closed
    IN  IF open = {} THEN {} ELSE {SetMax(open)}

\* The next available expiration after d within the horizon, as a set.
NextAvailable(d, avail) ==
    LET window == {x \in avail : d < x /\ x <= d + Horizon}
    IN  IF window = {} THEN {} ELSE {SetMin(window)}

\* C5: for SPX, SPXW, SPY and QQQ the result is exactly the members of
\* {currentDate, W} that are available, W the last trading day of the week;
\* so currentDate is in the result whenever it is available.
C5_SameDayWeeklyTargets ==
    (spc = "done" /\ symbol \in {"SPX", "SPXW", "SPY", "QQQ"}) =>
        /\ Range(targets) =
              ({current_date} \cup LastTradingDay(current_date, closed_dates))
                  \cap available
        /\ current_date \in available => current_date \in Range(targets)

C5_Witness ==
    /\ spc = "done"
    /\ symbol = "SPY"
    /\ weekday(current_date) = 2
    /\ closed_dates = {current_date + 2}
    /\ available = {current_date, current_date + 1, current_date + 2}
    /\ targets = <<current_date, current_date + 1>>

\* C6: for VIX on a Monday or Tuesday the result is exactly {Wednesday} when
\* that week's Wednesday is available and not closed; otherwise it is the
\* next available expiration after currentDate within 45 days, or empty;
\* it never holds currentDate.
C6_VixMondayTuesday ==
    (spc = "done" /\ symbol = "VIX" /\ weekday(current_date) \in {0, 1}) =>
        LET wed == current_date - weekday(current_date) + 2
        IN  /\ (wed \in available /\ wed \notin closed_dates)
                  => targets = <<wed>>
            /\ ~ (wed \in available /\ wed \notin closed_dates)
                  => /\ Len(targets) <= 1
                     /\ Range(targets) = NextAvailable(current_date, available)
            /\ current_date \notin Range(targets)

C6_Witness ==
    /\ spc = "done"
    /\ symbol = "VIX"
    /\ weekday(current_date) = 1
    /\ closed_dates = {current_date + 1}
    /\ available = {current_date, current_date + 1, current_date + Horizon}
    /\ targets = <<current_date + 1>>

\* C7: for VIX from Wednesday to Sunday the result is the fallback: at most
\* one date, the next available one strictly after currentDate within 45
\* days, currentDate excluded even when available; a Wednesday with itself
\* and the Friday after it available gives that Friday.
C7_VixWednesdayToSunday ==
    (spc = "done" /\ symbol = "VIX" /\ weekday(current_date) \in 2..6) =>
        /\ Len(targets) <= 1
        /\ Range(targets) = NextAvailable(current_date, available)
        /\ \A i \in DOMAIN targets : targets[i] > current_date
        /\ (weekday(current_date) = 2
                /\ available = {current_date, current_date + 2})
              => targets = <<current_date + 2>>

C7_Witness ==
    /\ spc = "done"
    /\ symbol = "VIX"
    /\ weekday(current_date) = 2
    /\ closed_dates = {}
    /\ available = {current_date, current_date + 2}
    /\ targets = <<current_date + 2>>

\* A list in strictly ascending order.
StrictlyAscending(q) == \A i, j \in DOMAIN q : i < j => q[i] < q[j]

\* C8: the returned list is strictly ascending (sorted, no duplicates), each
\* element is an available expiration, and the call leaves its inputs as
\* they were.
C8_SortedSubsetOfAvailable ==
    [][(spc = "input" /\ spc' = "done") =>
            /\ StrictlyAscending(targets')
            /\ Range(targets') \subseteq available
            /\ UNCHANGED <<symbol, current_date, available, closed_dates>>]_vars

C8_Witness ==
    /\ spc = "done"
    /\ Len(targets) = 2
    /\ targets[1] < targets[2]
    /\ Cardinality(available) = 3
    /\ Range(targets) \subseteq available

\* C9: a symbol that is none of SPX, SPXW, SPY, QQQ and VIX gets no target.
C9_UnrecognisedSymbolEmpty ==
    (spc = "done" /\ symbol \notin {"SPX", "SPXW", "SPY", "QQQ", "VIX"}) =>
        targets = <<>>

C9_Witness ==
    /\ spc = "done"
    /\ symbol = "AAPL"
    /\ weekday(current_date) = 0
    /\ closed_dates = {}
    /\ available = {current_date, current_date + 2, current_date + 4}
    /\ targets = <<>>

----------------------------------------------------------------------------
(* utils.py, client.py, models.py: the underlying-price derivation *)

\* A JSON body is a record of the fields it carries.  The values of an
\* error field: an error message, and the empty string.
ErrorMessage == "Invalid symbol"

\* bool(value) of the value of an error field.
Truthy(value) == value # ""

\* An envelope {"response": [...]}, with an error message when err holds.
Envelope(items, err) ==
    IF err THEN [response |-> items, error |-> ErrorMessage]
    ELSE [response |-> items]

\* parse_response that takes every envelope as a success.
ParseNeverRaises(envelope) == FALSE

\* parse_response raises "API Error" (utils.py line 93):
\* response.get("error") is there and truthy.
ParseRaises(envelope) ==
    /\ "error" \in DOMAIN envelope
    /\ Truthy(envelope.error)

\* parse_response returns response.get("response", []).
parse_response(envelope) ==
    IF "response" \in DOMAIN envelope THEN envelope.response ELSE <<>>

\* A list of numbers with x put in its place (q ascending).
InsertAscending(x, q) ==
    LET k == Cardinality({i \in DOMAIN q : q[i] <= x})
    IN  SubSeq(q, 1, k) \o <<x>> \o SubSeq(q, k + 1, Len(q))

\* sorted(list) of a list of numbers: ascending, duplicates kept.
RECURSIVE sorted_list(_)
sorted_list(q) ==
    IF q = <<>> THEN <<>>
    ELSE InsertAscending(q[Len(q)], sorted_list(SubSeq(q, 1, Len(q) - 1)))

\* get_expirations: the listed expirations on or after the date, sorted.
get_expirations(items, d) ==
    LET OnOrAfter(e) == e >= d
    IN  sorted_list(SelectSeq(items, OnOrAfter))

\* get_strikes: the listed strikes, sorted.
get_strikes(items) == sorted_list(items)

\* exps[:2]
FirstTwo(q) == SubSeq(q, 1, IF Len(q) < 2 THEN Len(q) ELSE 2)

\* The element just below the middle of a list of even length.
LowerMiddleStrike(q) == q[((Len(q) - 1) \div 2) + 1]

\* strikes[len(strikes)//2]
MiddleStrike(q) == q[(Len(q) \div 2) + 1]

\* The rights with the put first.
RightsPutFirst == <<"P", "C">>

\* for right in ["C", "P"]
Rights == <<"C", "P">>

\* Lines 96-101: an item with a "data" key gives its data rows, any other
\* item is a row itself.
RECURSIVE Flatten(_)
Flatten(items) ==
    IF items = <<>> THEN <<>>
    ELSE (IF "data" \in DOMAIN items[1] THEN items[1]["data"] ELSE <<items[1]>>)
         \o Flatten(Tail(items))

\* pd.DataFrame(rows) of rows keyed by timestamp and, maybe,
\* underlying_price: the columns are the keys seen, a key a row lacks is
\* missing in it.
DataFrame(rows) ==
    LET cols == (IF \E i \in DOMAIN rows : "timestamp" \in DOMAIN rows[i]
                 THEN <<"timestamp">> ELSE <<>>)
                \o (IF \E i \in DOMAIN rows : "underlying_price" \in DOMAIN rows[i]
                    THEN <<"underlying_price">> ELSE <<>>)
    IN  [cols |-> cols,
         rows |-> [i \in DOMAIN rows |->
                     [c \in Range(cols) |->
                         IF c \in DOMAIN rows[i] THEN rows[i][c] ELSE NaN]]]

\* 'min' of dt.floor('min'), in the unit of the timestamps (milliseconds).
MsPerMinute == 60000

\* timestamp.dt.floor('min')
FloorMinute(t) == t - (t % MsPerMinute)

\* A bug: no row is dropped.
DropNothing(rows) == rows

\* df.dropna(subset=['underlying_price'])
DropNa(rows) ==
    LET HasPrice(r) == notna(r["underlying_price"])
    IN  SelectSeq(rows, HasPrice)

\* A row put after the rows of q with a timestamp not later than its own.
InsertByTimestamp(r, q) ==
    LET k == Cardinality({i \in DOMAIN q : q[i]["timestamp"] <= r["timestamp"]})
    IN  SubSeq(q, 1, k) \o <<r>> \o SubSeq(q, k + 1, Len(q))

\* sort_values('timestamp'): ascending.  Rows of one timestamp are kept in
\* the order they came in, which is what the sort does on the short lists
\* of the model although its default kind promises no order among ties.
RECURSIVE SortByTimestamp(_)
SortByTimestamp(rows) ==
    IF rows = <<>> THEN <<>>
    ELSE InsertByTimestamp(rows[Len(rows)],
                           SortByTimestamp(SubSeq(rows, 1, Len(rows) - 1)))

\* One row of the aggregation: open='first', high='max', low='min',
\* close='last', volume='count' over the rows of minute m.
Candle(m, rows) ==
    LET InMinute(r) == FloorMinute(r["timestamp"]) = m
        bucket == SelectSeq(rows, InMinute)
        prices == {bucket[i]["underlying_price"] : i \in DOMAIN bucket}
    IN  [timestamp |-> m,
         open |-> bucket[1]["underlying_price"],
         high |-> SetMax(prices),
         low |-> SetMin(prices),
         close |-> bucket[Len(bucket)]["underlying_price"],
         volume |-> Len(bucket)]

\* Lines 112-115: the rows, in the order the sort left them, grouped by
\* minute (groups in ascending order) and aggregated.
AggregateSorted(rows) ==
    LET minutes == sorted({FloorMinute(rows[i]["timestamp"]) : i \in DOMAIN rows})
    IN  [cols |-> <<"timestamp", "open", "high", "low", "close", "volume">>,
         rows |-> [k \in DOMAIN minutes |-> Candle(minutes[k], rows)]]

\* Lines 107-115: drop the rows without a price, sort by time, group by
\* minute and aggregate.
Aggregate(t) == AggregateSorted(SortByTimestamp(DropNa(t.rows)))

\* The orders sort_values('timestamp') may leave the rows in: ascending by
\* timestamp, rows of one timestamp in any order (the default sort kind is
\* not a stable one).
TimeOrders(rows) ==
    LET orders == {p \in [DOMAIN rows -> DOMAIN rows] :
                      /\ \A i, j \in DOMAIN rows : i # j => p[i] # p[j]
                      /\ \A i, j \in DOMAIN rows :
                            i < j => rows[p[i]]["timestamp"]
                                        <= rows[p[j]]["timestamp"]}
    IN  {[k \in DOMAIN rows |-> rows[p[k]]] : p \in orders}

\* Lines 91-105: the response is skipped (continue) when it has no item,
\* no row, or no underlying_price column.
Skipped(items) ==
    \/ items = <<>>
    \/ IsEmpty(DataFrame(Flatten(items)))
    \/ "underlying_price" \notin Range(DataFrame(Flatten(items)).cols)

\* Lines 107-119: the table handed to UnderlyingData.
DerivedTable(items) == fix_dataframe(Aggregate(DataFrame(Flatten(items))))

\* UnderlyingData.__post_init__ raises ValueError (models.py line 15).
PostInitRaises(data) == IsEmpty(data)

----------------------------------------------------------------------------
(* Inputs of the derivation specification *)

DeriveDates == {8}

\* The dates an expiration listing is drawn from.
ListedExpirations(d) == {d - 1, d, d + 1}

\* The strikes a strike listing is drawn from.
ListedStrikes == {90, 100, 110}

\* The 5-strike listing of the specification's scenario.
ScenarioStrikes == <<90, 95, 100, 105, 110>>

\* Timestamps of the Greeks rows of a response, in milliseconds.
RowTimes == {0}

\* A Greeks row: with a price (missing, zero or valid) or without the field.
GreeksRows ==
    [timestamp : RowTimes, underlying_price : {NaN, 0, 1}]
        \cup [timestamp : RowTimes]

RowLists == UNION {[1..n -> GreeksRows] : n \in 0..MaxGreeksRows}

\* The Greeks responses: lists of flat rows, and lists of one nested item
\* {contract, data}.
GreeksResponses ==
    RowLists \cup {<<[contract |-> 0, data |-> rows]>> : rows \in RowLists}

\* The strike listings of up to n strikes, in any order, duplicates allowed.
StrikeListings(n) == UNION {[1..k -> ListedStrikes] : k \in 0..n}

\* The listings of the derivation specification: none or one strike.
ShortListings == StrikeListings(1)

\* The listings of the strike-pick specification: every listing of up to
\* MaxStrikes strikes, and the 5-strike scenario.
LongListings == StrikeListings(MaxStrikes) \cup {ScenarioStrikes}

\* The Greeks responses of the strike-pick specification: no row, or one
\* row with a valid price.
ShortResponses == {<<>>, <<[timestamp |-> 0, underlying_price |-> 1]>>}

----------------------------------------------------------------------------
(* The derivation specification: one call of fetch_underlying_ohlc, a step *)
(* per request awaited.                                                    *)

InitDerive ==
    /\ IdleExcept("derive")
    /\ dpc = "start"
    /\ date \in DeriveDates
    /\ exps = <<>> /\ exp_i = 0 /\ right_i = 0
    /\ strikes = <<>> /\ target_strike = 0
    /\ skipped = {} /\ requests = <<>> /\ raw_items = <<>>
    /\ candles = NoTable /\ error = "" /\ ohlc = NoTable

\* The call ends with an exception: "FetchError" is what
\* fetch_with_interval_fallback re-raises, "ApiError" what parse_response
\* raises, "ValueError" what UnderlyingData.__post_init__ raises, and
\* "NoExpirationsAvailable" and "UnderlyingDerivationFailed" are the
\* exceptions of lines 63 and 123.
Raise(e) ==
    /\ dpc' = "raised"
    /\ error' = e

\* The envelopes a request may be answered with: one per list of items, and
\* one that carries an error field.
Envelopes(lists) ==
    {Envelope(items, FALSE) : items \in lists} \cup {Envelope(<<>>, TRUE)}

\* The requests of lines 68 and 87.
StrikesRequest(e) == [kind |-> "strikes", exp |-> e]

GreeksRequest(e, k, r) ==
    [kind |-> "greeks", exp |-> e, strike |-> k, right |-> r]

\* Lines 60-68: the expiration listing is answered; with an expiration
\* listed, the strike listing of the first one is requested.
GetExpirations ==
    /\ dpc = "start"
    /\ \/ /\ Raise("FetchError")
          /\ UNCHANGED <<exps, exp_i, requests>>
       \/ \E envelope \in Envelopes(UNION {[1..n -> ListedExpirations(date)] :
                                               n \in 0..MaxExps}) :
            IF ParseRaises(envelope)
            THEN Raise("ApiError") /\ UNCHANGED <<exps, exp_i, requests>>
            ELSE /\ exps' = get_expirations(parse_response(envelope), date)
                 /\ IF exps' = <<>>
                    THEN /\ Raise("NoExpirationsAvailable")
                         /\ UNCHANGED <<exp_i, requests>>
                    ELSE /\ dpc' = "strikes"
                         /\ exp_i' = 1
                         /\ requests' = Append(requests, StrikesRequest(exps'[1]))
                         /\ UNCHANGED error
    /\ UNCHANGED <<date, right_i, strikes, target_strike, skipped,
                   raw_items, candles, ohlc>>
    /\ UNCHANGED exceptDerive

\* The for loop over exps[:2] goes to its next expiration and requests its
\* strike listing (line 68), and line 123 raises when there is none.
NextExpiration ==
    IF exp_i < Len(FirstTwo(exps))
    THEN /\ dpc' = "strikes"
         /\ exp_i' = exp_i + 1
         /\ requests' = Append(requests, StrikesRequest(exps[exp_i + 1]))
         /\ UNCHANGED error
    ELSE Raise("UnderlyingDerivationFailed") /\ UNCHANGED <<exp_i, requests>>

\* Lines 68-87: the strike listing of target_exp is answered with one of
\* the given listings; with a strike listed, the Greeks of the first right
\* are requested.
GetStrikesFrom(listings) ==
    /\ dpc = "strikes"
    /\ \/ /\ Raise("FetchError")
          /\ UNCHANGED <<exp_i, right_i, strikes, target_strike, skipped,
                         requests>>
       \/ \E envelope \in Envelopes(listings) :
            IF ParseRaises(envelope)
            THEN /\ Raise("ApiError")
                 /\ UNCHANGED <<exp_i, right_i, strikes, target_strike,
                                skipped, requests>>
            ELSE /\ strikes' = get_strikes(parse_response(envelope))
                 /\ IF strikes' = <<>>
                    THEN /\ skipped' = skipped \cup {exp_i}
                         /\ NextExpiration
                         /\ UNCHANGED <<right_i, target_strike>>
                    ELSE /\ target_strike' = MiddleStrike(strikes')
                         /\ right_i' = 1
                         /\ dpc' = "greeks"
                         /\ requests' =
                               Append(requests,
                                      GreeksRequest(exps[exp_i],
                                                    MiddleStrike(strikes'),
                                                    Rights[1]))
                         /\ UNCHANGED <<exp_i, skipped, error>>
    /\ UNCHANGED <<date, exps, raw_items, candles, ohlc>>
    /\ UNCHANGED exceptDerive

\* continue: the Greeks request of the next right (line 87), or the next
\* expiration after the last right.
NextRight ==
    IF right_i < Len(Rights)
    THEN /\ right_i' = right_i + 1
         /\ requests' = Append(requests,
                               GreeksRequest(exps[exp_i], target_strike,
                                             Rights[right_i + 1]))
         /\ UNCHANGED <<dpc, exp_i, error>>
    ELSE NextExpiration /\ UNCHANGED right_i

\* Lines 87-121: the Greeks request of (target_exp, right) is answered
\* with one of the given responses, and what is made of the response.
GetGreeksFrom(responses) ==
    /\ dpc = "greeks"
    /\ \/ /\ Raise("FetchError")
          /\ UNCHANGED <<exp_i, right_i, requests, raw_items, candles, ohlc>>
       \/ \E envelope \in Envelopes(responses) :
            IF ParseRaises(envelope)
            THEN /\ Raise("ApiError")
                 /\ UNCHANGED <<exp_i, right_i, requests, raw_items, candles,
                                ohlc>>
            ELSE LET parsed == parse_response(envelope)
                 IN  /\ raw_items' = parsed
                     /\ IF Skipped(parsed)
                        THEN NextRight /\ UNCHANGED <<candles, ohlc>>
                        ELSE /\ \E order \in TimeOrders(
                                     DropNa(DataFrame(Flatten(parsed)).rows)) :
                                   candles' = AggregateSorted(order)
                             /\ IF PostInitRaises(fix_dataframe(candles'))
                                THEN Raise("ValueError") /\ UNCHANGED ohlc
                                ELSE /\ dpc' = "returned"
                                     /\ ohlc' = fix_dataframe(candles')
                                     /\ UNCHANGED error
                             /\ UNCHANGED <<exp_i, right_i, requests>>
    /\ UNCHANGED <<date, exps, strikes, target_strike, skipped>>
    /\ UNCHANGED exceptDerive

GetStrikes == GetStrikesFrom(ShortListings)

GetGreeks == GetGreeksFrom(GreeksResponses)

NextDerive == GetExpirations \/ GetStrikes \/ GetGreeks

SpecDerive == InitDerive /\ [][NextDerive]_vars

\* The strike-pick specification: the same call, with long strike listings
\* and short Greeks responses.
PickStrikes == GetStrikesFrom(LongListings)

PickGreeks == GetGreeksFrom(ShortResponses)

NextPick == GetExpirations \/ PickStrikes \/ PickGreeks

SpecPick == InitDerive /\ [][NextPick]_vars

\* The candle specification: the same call at its last Greeks request,
\* answered with rows of several timestamps and prices.
ObservationTimes == {0, 20000, 40000, 60000}

\* A row holds a price (zero, or one of two valid ones) or lacks the field.
Observations ==
    [timestamp : ObservationTimes, underlying_price : {0, 1, 2}]
        \cup [timestamp : ObservationTimes]

ObservationLists == UNION {[1..n -> Observations] : n \in 0..MaxObservations}

\* The responses: lists of flat rows, and lists of one nested item of at
\* most one row.
MinuteResponses ==
    ObservationLists
        \cup {<<[contract |-> 0, data |-> rows]>> :
                  rows \in {q \in ObservationLists : Len(q) <= 1}}

\* The call after the expiration listing returned one expiration, its
\* strike listing one strike, and the Greeks request of the Call no row:
\* the Greeks request of the Put is awaited.
InitCandles ==
    /\ IdleExcept("derive")
    /\ dpc = "greeks"
    /\ date \in DeriveDates
    /\ exps = <<date>> /\ exp_i = 1 /\ right_i = 2
    /\ strikes = <<100>> /\ target_strike = 100
    /\ skipped = {}
    /\ requests = <<StrikesRequest(date),
                    GreeksRequest(date, 100, Rights[1]),
                    GreeksRequest(date, 100, Rights[2])>>
    /\ raw_items = <<>>
    /\ candles = NoTable /\ error = "" /\ ohlc = NoTable

CandleGreeks == GetGreeksFrom(MinuteResponses)

NextCandles == CandleGreeks

SpecCandles == InitCandles /\ [][NextCandles]_vars

----------------------------------------------------------------------------
(* utils.py: timed_get under its retry decorator, called through           *)
(* fetch_with_interval_fallback by a client method that parses the body.   *)

\* stop_after_attempt(3)
MaxAttempts == 3

\* What one HTTP attempt ends with: client.get raises a timeout or a
\* connection error, or answers with a status and a body.
TimeoutOutcome == [kind |-> "TimeoutException"]
ConnectOutcome == [kind |-> "ConnectError"]
ResponseOutcome(status, json) ==
    [kind |-> "response", status |-> status, json |-> json]

\* The exception classes that are instances of httpx.TimeoutException or
\* httpx.RequestError.  httpx.HTTPStatusError derives from httpx.HTTPError
\* and is not among them, and neither is the error of response.json().
RequestErrors == {"TimeoutException", "ConnectError"}

\* The retry predicate with the status error among the retried classes.
retry_also_on_status(exception) ==
    exception \in RequestErrors \cup {"HTTPStatusError"}

\* retry_if_exception_type((httpx.TimeoutException, httpx.RequestError))
retry_if_exception_type(exception) == exception \in RequestErrors

\* A stop condition that allows one attempt more.
stop_one_attempt_late(n) == n > MaxAttempts

\* stop_after_attempt(3): stop once the attempt number reaches 3.
stop_after_attempt(n) == n >= MaxAttempts

\* The body of response.json(): a record, or NotJson when the text of the
\* response is not JSON and response.json() raises.
NotJson == [not_json |-> TRUE]

\* Lines 68-78: the exception an attempt raises, "" when it returns.
AttemptRaises(outcome) ==
    IF outcome.kind # "response" THEN outcome.kind
    ELSE IF outcome.status # 200 THEN "HTTPStatusError"
    ELSE IF outcome.json = NotJson THEN "JSONDecodeError"
    ELSE ""

\* Line 71: the statistics rows after the attempt (a row per response).
StatsAfter(rows, outcome) ==
    IF outcome.kind = "response" THEN Append(rows, outcome.status) ELSE rows

\* Lines 76-78: the audit rows after the attempt (a row per exception,
\* each with retry_count 1).
AuditAfter(rows, outcome) ==
    IF AttemptRaises(outcome) # ""
    THEN Append(rows, [retry_count |-> 1, error |-> AttemptRaises(outcome)])
    ELSE rows

\* The items of a response list, and the bodies of a 200 response: with
\* no error field, with an empty one, and with an error message.
FetchItems == {<<>>, <<100>>}

JsonBodies ==
    {[response |-> items] : items \in FetchItems}
        \cup {[response |-> items, error |-> e] :
                  items \in FetchItems, e \in {"", ErrorMessage}}

HttpOutcomes ==
    {TimeoutOutcome, ConnectOutcome, ResponseOutcome(500, NotJson),
     ResponseOutcome(200, NotJson)}
        \cup {ResponseOutcome(200, json) : json \in JsonBodies}

InitFetch ==
    /\ IdleExcept("fetch")
    /\ fpc = "idle" /\ calls = 0 /\ attempt_number = 0 /\ http_log = <<>>
    /\ body = NoBody /\ rows_used = <<>> /\ ferror = ""
    /\ stats_rows = <<>> /\ audit_rows = <<>>

\* A client method calls fetch_with_interval_fallback: timed_get starts
\* with a retry state of its own, at attempt 1.
StartFetch ==
    /\ fpc \in {"idle", "returned", "raised"}
    /\ calls < MaxFetches
    /\ calls' = calls + 1
    /\ attempt_number' = 1
    /\ fpc' = "attempt"
    /\ body' = NoBody /\ rows_used' = <<>> /\ ferror' = ""
    /\ UNCHANGED <<http_log, stats_rows, audit_rows>>
    /\ UNCHANGED exceptFetch

\* One attempt of timed_get (lines 67-78), what the retry decorator makes
\* of it (lines 58-63), and, when it returns, the caller's parse_response.
Attempt ==
    /\ fpc = "attempt"
    /\ \E outcome \in HttpOutcomes :
          LET exception == AttemptRaises(outcome)
          IN  /\ http_log' = Append(http_log, [call |-> calls,
                                                attempt |-> attempt_number,
                                                outcome |-> outcome])
              /\ stats_rows' = StatsAfter(stats_rows, outcome)
              /\ audit_rows' = AuditAfter(audit_rows, outcome)
              /\ IF exception = ""
                 THEN /\ body' = outcome.json
                      /\ IF ParseRaises(outcome.json)
                         THEN /\ fpc' = "raised"
                              /\ ferror' = "ApiError"
                              /\ rows_used' = <<>>
                         ELSE /\ fpc' = "returned"
                              /\ rows_used' = parse_response(outcome.json)
                              /\ ferror' = ""
                      /\ UNCHANGED attempt_number
                 ELSE /\ IF /\ retry_if_exception_type(exception)
                            /\ ~stop_after_attempt(attempt_number)
                         THEN /\ attempt_number' = attempt_number + 1
                              /\ UNCHANGED <<fpc, ferror>>
                         ELSE /\ fpc' = "raised"
                              /\ ferror' = exception
                              /\ UNCHANGED attempt_number
                      /\ UNCHANGED <<body, rows_used>>
    /\ UNCHANGED calls
    /\ UNCHANGED exceptFetch

NextFetch == StartFetch \/ Attempt

SpecFetch == InitFetch /\ [][NextFetch]_vars

----------------------------------------------------------------------------
(* realtime.py: RealtimeFeed *)

\* self.market_open
market_open == "09:30:00"

\* f"{symbol}_underlying"
KeyOf(sym) ==
    CASE sym = "SPX" -> "SPX_underlying"
      [] sym = "VIX" -> "VIX_underlying"
      [] sym = "AAPL" -> "AAPL_underlying"

\* Line 45: the endpoint polled for a symbol.
EndpointOf(sym) ==
    IF sym \in {"SPX", "VIX"} THEN "/index/history/ohlc"
    ELSE "/stock/history/ohlc"

\* dict.get(key, default)
DictGet(dict, key, default) ==
    IF key \in DOMAIN dict THEN dict[key] ELSE default

\* dict[key] = value
DictSet(dict, key, value) ==
    [k \in DOMAIN dict \cup {key} |-> IF k = key THEN value ELSE dict[k]]

\* bool(dict)
DictTruthy(dict) == DOMAIN dict # {}

\* Lines 42-51: the request poll_cycle issues for a symbol.
PollRequest(sym, times, n) ==
    [cycle |-> n, symbol |-> sym, endpoint |-> EndpointOf(sym),
     start_time |-> DictGet(times, KeyOf(sym), market_open)]

\* The subset of drop_duplicates.
DuplicateKey(row) == <<row.timestamp, row.strike, row.right>>

\* The elements of q at the given positions, by ascending position.
RECURSIVE AtPositions(_, _)
AtPositions(q, positions) ==
    IF positions = {} THEN <<>>
    ELSE LET i == SetMin(positions)
         IN  <<q[i]>> \o AtPositions(q, positions \ {i})

\* drop_duplicates(subset=["timestamp", "strike", "right"], keep="last")
drop_duplicates(rows) ==
    AtPositions(rows,
        {i \in DOMAIN rows :
            \A j \in DOMAIN rows :
                j > i => DuplicateKey(rows[j]) # DuplicateKey(rows[i])})

\* _update_session: self.session_data after the call.
update_session(data, key, rows) ==
    IF key \in DOMAIN data
    THEN DictSet(data, key, drop_duplicates(data[key] \o rows))
    ELSE DictSet(data, key, rows)

\* What a poll request ends with: the exception of the fetch, or the JSON
\* body it returned.
Raised(exception) == [raised |-> exception]
Returned(json) == [json |-> json]

\* Line 53, `resp and resp.status_code == 200`, resp being the body
\* fetch_with_interval_fallback returned: an empty body is falsy and the
\* symbol is passed over; any other body has no attribute status_code and
\* the test raises AttributeError.
StatusTestRaises(json) == DictTruthy(json)

\* The handling of asyncio.CancelledError in run_forever without the
\* finally clause.
after_cancelled_no_finally == "stopped"

\* Lines 68-71: asyncio.CancelledError is caught and logged, and the
\* finally clause awaits self.client.close().
after_cancelled == "closing"

\* The symbol lists a feed is made with.
TrackedSymbols == {"SPX", "AAPL"}

SymbolLists == UNION {[1..n -> TrackedSymbols] : n \in 0..MaxSymbols}

\* The timestamp of a candle row, "2024-01-10T09:31:00.000": a record of
\* its date, its time of day and its milliseconds.
CandleTime(time) == [date |-> "2024-01-10", time |-> time, ms |-> "000"]

\* timestamp[11:19]: the eight characters after the date and the "T".
TimeOfDay(timestamp) == timestamp.time

\* The bodies a poll request returns.
PollBodies ==
    {[response |-> <<>>],
     [response |-> <<[timestamp |-> CandleTime("09:31:00"), close |-> 1]>>],
     [response |-> <<[timestamp |-> CandleTime("09:31:00"), close |-> 1],
                     [timestamp |-> CandleTime("09:32:00"), close |-> 2]>>],
     [response |-> <<>>, error |-> ErrorMessage]}

InitRealtime ==
    /\ IdleExcept("realtime")
    /\ rt_pc = "start"
    /\ rt_symbols \in SymbolLists
    /\ sym_i = 0 /\ cycle = 0 /\ rt_requests = <<>> /\ rt_responses = <<>>
    /\ rt_error = "" /\ cancelled = FALSE /\ client_closed = FALSE
    /\ session_data = EmptyDict /\ last_candle_time = EmptyDict
    /\ updates = 0 /\ upd_key = "" /\ upd_df = <<>>

\* The for loop of poll_cycle number n goes to the symbol at position i and
\* issues its request, or, past the last symbol, poll_cycle returns and
\* run_forever sleeps.
PollFrom(i, n) ==
    IF i <= Len(rt_symbols)
    THEN /\ rt_pc' = "polling"
         /\ sym_i' = i
         /\ rt_requests' = Append(rt_requests,
                                  PollRequest(rt_symbols[i], last_candle_time,
                                              n))
    ELSE /\ rt_pc' = "sleeping"
         /\ UNCHANGED <<sym_i, rt_requests>>

\* An exception leaves poll_cycle and run_forever's while loop: only
\* asyncio.CancelledError is caught, and the finally clause runs.
PollRaises(exception) ==
    /\ rt_error' = exception
    /\ rt_pc' = "closing"
    /\ UNCHANGED <<sym_i, rt_requests>>

\* Lines 65-66 and 37-51: run_forever begins a poll cycle, at its start or
\* after its sleep.
BeginCycle ==
    /\ rt_pc \in {"start", "sleeping"}
    /\ cycle < MaxCycles
    /\ cycle' = cycle + 1
    /\ PollFrom(1, cycle + 1)
    /\ UNCHANGED <<rt_symbols, rt_responses, rt_error, cancelled,
                   client_closed, session_data, last_candle_time,
                   updates, upd_key, upd_df>>
    /\ UNCHANGED exceptRealtime

\* Lines 46-59: the request of the current symbol is answered.
PollAnswered ==
    /\ rt_pc = "polling"
    /\ \/ /\ rt_responses' = Append(rt_responses, Raised("FetchError"))
          /\ PollRaises("FetchError")
       \/ /\ rt_responses' = Append(rt_responses, Returned(EmptyDict))
          /\ PollFrom(sym_i + 1, cycle)
          /\ UNCHANGED rt_error
       \/ \E json \in PollBodies :
            /\ rt_responses' = Append(rt_responses, Returned(json))
            /\ IF StatusTestRaises(json)
               THEN PollRaises("AttributeError")
               ELSE PollFrom(sym_i + 1, cycle) /\ UNCHANGED rt_error
    /\ UNCHANGED <<rt_symbols, cycle, cancelled, client_closed, session_data,
                   last_candle_time, updates, upd_key, upd_df>>
    /\ UNCHANGED exceptRealtime

\* The task is cancelled while it awaits a fetch or the sleep: lines 68-69.
Cancel ==
    /\ rt_pc \in {"polling", "sleeping"}
    /\ cancelled' = TRUE
    /\ rt_pc' = after_cancelled
    /\ UNCHANGED <<rt_symbols, sym_i, cycle, rt_requests, rt_responses,
                   rt_error, client_closed, session_data, last_candle_time,
                   updates, upd_key, upd_df>>
    /\ UNCHANGED exceptRealtime

\* Lines 70-71 and client.py lines 125-126: the finally clause closes the
\* client, and run_forever returns or lets the exception out.
CloseClient ==
    /\ rt_pc = "closing"
    /\ client_closed' = TRUE
    /\ rt_pc' = IF rt_error = "" THEN "stopped" ELSE "failed"
    /\ UNCHANGED <<rt_symbols, sym_i, cycle, rt_requests, rt_responses,
                   rt_error, cancelled, session_data, last_candle_time,
                   updates, upd_key, upd_df>>
    /\ UNCHANGED exceptRealtime

NextRealtime == BeginCycle \/ PollAnswered \/ Cancel \/ CloseClient

SpecRealtime == InitRealtime /\ [][NextRealtime]_vars

\* The event loop runs a task that can run: the close awaited by the
\* finally clause completes.
SpecRealtimeFair == SpecRealtime /\ WF_vars(CloseClient)

\* The session specification: _update_session called on a new feed with
\* one batch of rows after another.
SessionKeys == {KeyOf(sym) : sym \in TrackedSymbols}

SessionRows ==
    [timestamp : {1, 2}, strike : {100}, right : {"C"}, close : {1, 2}]

BatchSizes == 1..2

Batches == UNION {[1..n -> SessionRows] : n \in BatchSizes}

InitSession ==
    /\ IdleExcept("realtime")
    /\ rt_pc = "session"
    /\ rt_symbols = <<>>
    /\ sym_i = 0 /\ cycle = 0 /\ rt_requests = <<>> /\ rt_responses = <<>>
    /\ rt_error = "" /\ cancelled = FALSE /\ client_closed = FALSE
    /\ session_data = EmptyDict /\ last_candle_time = EmptyDict
    /\ updates = 0 /\ upd_key = "" /\ upd_df = <<>>

\* Lines 30-35: one call of _update_session.
UpdateSession ==
    /\ rt_pc = "session"
    /\ updates < MaxUpdates
    /\ \E key \in SessionKeys, rows \in Batches :
          /\ session_data' = update_session(session_data, key, rows)
          /\ upd_key' = key
          /\ upd_df' = rows
    /\ updates' = updates + 1
    /\ UNCHANGED <<rt_pc, rt_symbols, sym_i, cycle, rt_requests, rt_responses,
                   rt_error, cancelled, client_closed, last_candle_time>>
    /\ UNCHANGED exceptRealtime

NextSession == UpdateSession

SpecSession == InitSession /\ [][NextSession]_vars

----------------------------------------------------------------------------
(* bulk.py: _worker_main, the work of one process on one symbol.  Day       *)
(* numbers carry no year, so the years the range spans are an input.       *)

\* The keys of ENDPOINTS, in the order of the dict.
DataTypes == <<"ohlc", "greeks">>

\* Every day from start to end that is not a closed date, weekends too.
EveryOpenDay(start, end, closed) ==
    sorted({d \in start..end : d \notin closed})

\* Lines 42-47: the weekdays from start to end that are not closed dates.
TradingDays(start, end, closed) ==
    sorted({d \in start..end : weekday(d) < 5 /\ d \notin closed})

CalendarRequest(year) == [kind |-> "calendar", year |-> year]
ExpirationsRequest(day) == [kind |-> "expirations", day |-> day]
DataRequest(day, exp, dtype) ==
    [kind |-> "data", day |-> day, exp |-> exp, dtype |-> dtype]

\* The inputs of a worker.
WorkerSymbols == {"SPX", "VIX", "AAPL"}
WorkerStarts == {10, 11}
YearLists == {<<2024>>, <<2024, 2025>>}

\* The bodies a calendar or data request returns, other than the empty one.
WorkerBodies ==
    {[response |-> <<>>],
     [response |-> <<[contract |-> 0, data |-> <<[timestamp |-> 0]>>]>>]}

\* The dates the expiration listing a day is answered with is drawn from.
ListedFor(day) == {day - 1, day, day + 1, day + 2}

\* The orders the listing comes in: ascending or descending.
ListingOrders(listed) ==
    LET q == sorted(listed)
    IN  {q, [i \in DOMAIN q |-> q[Len(q) + 1 - i]]}

\* Line 53: the dates of exps_str.
avail_dates(listing) == {listing[i] : i \in DOMAIN listing}

InitWorker ==
    /\ IdleExcept("batch")
    /\ IdlePipeline
    /\ error_log = <<>> /\ files = <<>>
    /\ wpc = "holidays"
    /\ w_symbol \in WorkerSymbols
    /\ w_start \in WorkerStarts
    /\ w_end \in w_start..(w_start + MaxSpan)
    /\ w_years \in YearLists
    /\ year_i = 1
    /\ w_closed = {} /\ trading_days = <<>> /\ day_i = 0
    /\ exps_str = <<>>
    /\ w_targets = <<>> /\ target_i = 0 /\ dtype_i = 0
    /\ w_requests = <<CalendarRequest(w_years[1])>>
    /\ w_client_closed = FALSE

\* Lines 88-91: an exception anywhere in the try block is logged, and the
\* finally clause closes the client.
WorkerFails(exception) ==
    /\ error_log' = Append(error_log, [symbol |-> w_symbol, error |-> exception])
    /\ wpc' = "closing"
    /\ UNCHANGED <<day_i, w_targets, target_i, dtype_i, w_requests>>

\* The for loop over trading_days goes to the day at position i of days
\* and asks for its expirations; past the last day the try block ends.
GoToDay(i, days) ==
    /\ IF i <= Len(days)
       THEN /\ wpc' = "expirations"
            /\ day_i' = i
            /\ w_requests' = Append(w_requests, ExpirationsRequest(days[i]))
       ELSE /\ wpc' = "closing"
            /\ UNCHANGED <<day_i, w_requests>>
    /\ UNCHANGED <<target_i, dtype_i, error_log>>

\* The loops over targets and ENDPOINTS go to the data request at
\* positions (i, k) of the given targets, and to the next day after the
\* last target; targets (line 54) is the given list either way.
GoToData(i, k, exps_of_day) ==
    /\ w_targets' = exps_of_day
    /\ IF i <= Len(exps_of_day)
       THEN /\ wpc' = "data"
            /\ target_i' = i
            /\ dtype_i' = k
            /\ w_requests' = Append(w_requests,
                                    DataRequest(trading_days[day_i],
                                                exps_of_day[i], DataTypes[k]))
            /\ UNCHANGED <<day_i, error_log>>
       ELSE GoToDay(day_i + 1, trading_days)

\* Lines 24-47: the calendar request of a year is answered.  Line 31 tests
\* resp.status_code on the body, as realtime.py line 53 does.
HolidaysAnswered ==
    /\ wpc = "holidays"
    /\ \/ /\ WorkerFails("FetchError")
          /\ UNCHANGED <<year_i, trading_days>>
       \/ \E json \in {EmptyDict} \cup WorkerBodies :
            IF StatusTestRaises(json)
            THEN /\ WorkerFails("AttributeError")
                 /\ UNCHANGED <<year_i, trading_days>>
            ELSE IF year_i < Len(w_years)
                 THEN /\ year_i' = year_i + 1
                      /\ w_requests' =
                            Append(w_requests, CalendarRequest(w_years[year_i + 1]))
                      /\ UNCHANGED <<wpc, trading_days, day_i, w_targets,
                                     target_i, dtype_i, error_log>>
                 ELSE /\ trading_days' = TradingDays(w_start, w_end, w_closed)
                      /\ GoToDay(1, trading_days')
                      /\ UNCHANGED <<year_i, w_targets>>
    /\ UNCHANGED <<w_symbol, w_start, w_end, w_years, w_closed, exps_str,
                   w_client_closed, pipelineVars, files>>
    /\ UNCHANGED exceptBatch

\* Lines 50-54: the expiration listing of the day is answered.
ExpirationsAnswered ==
    /\ wpc = "expirations"
    /\ \/ /\ \E exception \in {"FetchError", "ApiError"} :
                WorkerFails(exception)
          /\ UNCHANGED exps_str
       \/ \E listed \in SUBSET ListedFor(trading_days[day_i]) :
          \E items \in ListingOrders(listed) :
            LET returned == get_expirations(items, trading_days[day_i])
            IN  /\ exps_str' = returned
                /\ IF returned = <<>>
                   THEN /\ GoToDay(day_i + 1, trading_days)
                        /\ UNCHANGED w_targets
                   ELSE GoToData(1, 1,
                                 select_target_expirations(
                                     w_symbol, trading_days[day_i],
                                     avail_dates(returned), w_closed))
    /\ UNCHANGED <<w_symbol, w_start, w_end, w_years, year_i, w_closed,
                   trading_days, w_client_closed, pipelineVars, files>>
    /\ UNCHANGED exceptBatch

\* Lines 65-86: the data request of (day, exp, dtype) is answered.  An
\* empty body is passed over (line 69); on any other body line 69 raises,
\* so the lines that build the rows and write the file are never reached.
DataAnswered ==
    /\ wpc = "data"
    /\ \/ WorkerFails("FetchError")
       \/ \E json \in {EmptyDict} \cup WorkerBodies :
            IF StatusTestRaises(json)
            THEN WorkerFails("AttributeError")
            ELSE IF dtype_i < Len(DataTypes)
                 THEN GoToData(target_i, dtype_i + 1, w_targets)
                 ELSE GoToData(target_i + 1, 1, w_targets)
    /\ UNCHANGED <<w_symbol, w_start, w_end, w_years, year_i, w_closed,
                   trading_days, exps_str, w_client_closed, pipelineVars,
                   files>>
    /\ UNCHANGED exceptBatch

\* Lines 90-91: the finally clause closes the client and the worker ends.
WorkerCloses ==
    /\ wpc = "closing"
    /\ w_client_closed' = TRUE
    /\ wpc' = "done"
    /\ UNCHANGED <<w_symbol, w_start, w_end, w_years, year_i, w_closed,
                   trading_days, day_i, exps_str, w_targets, target_i,
                   dtype_i, w_requests, pipelineVars, error_log, files>>
    /\ UNCHANGED exceptBatch

NextWorker ==
    HolidaysAnswered \/ ExpirationsAnswered \/ DataAnswered \/ WorkerCloses

SpecWorker == InitWorker /\ [][NextWorker]_vars

----------------------------------------------------------------------------
(* pipeline.py: Pipeline.run_underlying_pipeline, and the helpers of       *)
(* utils.py it uses.                                                       *)

\* verify_data_integrity(data)["valid"]: not empty and no null.
IntegrityValid(t) ==
    /\ ~IsEmpty(t)
    /\ \A i \in DOMAIN t.rows : \A c \in Range(t.cols) : notna(t.rows[i][c])

\* select_dtypes(include=[np.number]).columns: every column of the
\* derived table but the timestamp, which holds datetimes.
NumericCols(t) ==
    LET Numeric(c) == c # "timestamp"
    IN  SelectSeq(t.cols, Numeric)

\* fix_empty_rows: zeros of the numeric columns become missing, then
\* bfill().ffill() over every column.
fix_empty_rows(t) ==
    LET z == ReplaceZero(t, NumericCols(t))
    IN  [z EXCEPT !.rows =
            [i \in DOMAIN z.rows |->
                [c \in DOMAIN z.rows[i] |-> Ffill(Bfill(z.rows, c))[i]]]]

\* Lines 27-30: the table that is saved.
TableToSave(t) == IF IntegrityValid(t) THEN t ELSE fix_empty_rows(t)

\* What fetch_underlying_ohlc ends with.
FetchRaised(exception) == [raised |-> exception]
FetchReturned(t) == [data |-> t]

\* The file _save_parquet writes for symbol number i of the list.
SavedFile(sym, d, i, t) ==
    [name |-> <<sym, d>>, position |-> i, table |-> TableToSave(t)]

\* A pipeline that saves whatever it has, also after a failed fetch.
FilesAfterSavingAlways(written, outcome, sym, d, i) ==
    Append(written,
           SavedFile(sym, d, i,
                     IF "raised" \in DOMAIN outcome THEN NoTable
                     ELSE outcome.data))

\* Lines 23-34: the files after the symbol is handled; an exception of
\* the fetch skips the save.
FilesAfter(written, outcome, sym, d, i) ==
    IF "raised" \in DOMAIN outcome THEN written
    ELSE Append(written, SavedFile(sym, d, i, outcome.data))

\* The symbol lists a pipeline is run with.
PipelineSymbols == {"SPX", "AAPL"}

PipelineLists == UNION {[1..n -> PipelineSymbols] : n \in 0..MaxSymbols}

\* The tables fetch_underlying_ohlc returns: the derived tables of a
\* response of one row with a valid price or a zero price.
UnderlyingTables ==
    {DerivedTable(<<[timestamp |-> 0, underlying_price |-> price]>>) :
        price \in {0, 1}}

\* The ends of fetch_underlying_ohlc.
UnderlyingOutcomes ==
    {FetchRaised(e) : e \in {"FetchError", "ApiError", "NoExpirationsAvailable",
                             "UnderlyingDerivationFailed"}}
        \cup {FetchReturned(t) : t \in UnderlyingTables}

\* The symbol lists run_option_pipeline is run with.
OptionLists == {<<>>, <<"SPX">>, <<"SPX", "AAPL">>}

\* The requests of run_option_pipeline (lines 42 and 46).
OptionExpirationsRequest(sym) == [kind |-> "expirations", symbol |-> sym]
OptionStrikesRequest(sym, e) == [kind |-> "strikes", symbol |-> sym, exp |-> e]

\* The record logger.error writes at line 34 or line 63.
PipelineError(half, sym, exception) ==
    [symbol |-> sym, error |-> exception, half |-> half]

\* The for loop of run_option_pipeline goes to the symbol at position j and
\* requests its expirations (line 42); past the last symbol the run ends.
GoToOption(j) ==
    IF j <= Len(p_opt_symbols)
    THEN /\ ppc' = "opt_expirations"
         /\ p_j' = j
         /\ p_requests' = Append(p_requests,
                                 OptionExpirationsRequest(p_opt_symbols[j]))
    ELSE /\ ppc' = "finished"
         /\ UNCHANGED <<p_j, p_requests>>

\* A run of run_full_pipeline: run_underlying_pipeline(symbols) and then
\* run_option_pipeline(option symbols); either alone is the run with the
\* other list empty.
InitPipeline ==
    /\ IdleExcept("batch")
    /\ IdleWorker
    /\ error_log = <<>> /\ files = <<>>
    /\ p_symbols \in PipelineLists
    /\ p_opt_symbols \in OptionLists
    /\ p_date \in DeriveDates
    /\ p_i = 1
    /\ p_outcomes = <<>>
    /\ IF p_symbols # <<>>
       THEN ppc = "underlying" /\ p_j = 0 /\ p_requests = <<>>
       ELSE IF p_opt_symbols # <<>>
            THEN /\ ppc = "opt_expirations"
                 /\ p_j = 1
                 /\ p_requests = <<OptionExpirationsRequest(p_opt_symbols[1])>>
            ELSE ppc = "finished" /\ p_j = 0 /\ p_requests = <<>>

\* Lines 22-34: fetch_underlying_ohlc of the current symbol ends, the
\* table is checked and saved or the exception logged, and the loop goes
\* to the next symbol; after the last one run_option_pipeline starts.
UnderlyingAnswered ==
    /\ ppc = "underlying"
    /\ \E outcome \in UnderlyingOutcomes :
          /\ p_outcomes' = Append(p_outcomes, outcome)
          /\ files' = FilesAfter(files, outcome, p_symbols[p_i], p_date, p_i)
          /\ error_log' =
                IF "raised" \in DOMAIN outcome
                THEN Append(error_log,
                            PipelineError("underlying", p_symbols[p_i],
                                          outcome.raised))
                ELSE error_log
    /\ p_i' = p_i + 1
    /\ IF p_i < Len(p_symbols)
       THEN ppc' = "underlying" /\ UNCHANGED <<p_j, p_requests>>
       ELSE GoToOption(1)
    /\ UNCHANGED <<p_symbols, p_date, p_opt_symbols, workerVars>>
    /\ UNCHANGED exceptBatch

\* Line 63: the exception of the symbol is logged, and the loop goes on.
OptionFails(exception) ==
    /\ error_log' = Append(error_log,
                           PipelineError("option", p_opt_symbols[p_j],
                                         exception))
    /\ GoToOption(p_j + 1)

\* Lines 42-46: the expiration listing of the symbol is answered; with no
\* expiration the symbol is passed over, else the strikes of the first
\* expiration are requested.
OptionExpirationsAnswered ==
    /\ ppc = "opt_expirations"
    /\ \/ OptionFails("FetchError")
       \/ \E envelope \in Envelopes(UNION {[1..n -> ListedExpirations(p_date)] :
                                               n \in 0..MaxExps}) :
            IF ParseRaises(envelope)
            THEN OptionFails("ApiError")
            ELSE LET listing == get_expirations(parse_response(envelope),
                                                p_date)
                 IN  IF listing = <<>>
                     THEN GoToOption(p_j + 1) /\ UNCHANGED error_log
                     ELSE /\ ppc' = "opt_strikes"
                          /\ p_requests' =
                                Append(p_requests,
                                       OptionStrikesRequest(p_opt_symbols[p_j],
                                                            listing[1]))
                          /\ UNCHANGED <<p_j, error_log>>
    /\ UNCHANGED <<p_symbols, p_date, p_i, p_outcomes, p_opt_symbols, files,
                   workerVars>>
    /\ UNCHANGED exceptBatch

\* Lines 46-63: the strike listing is answered; with no strike the symbol
\* is passed over, else line 51 looks up fetch_option_data, which
\* ThetaClient does not have, and the AttributeError is logged: lines
\* 55-60, which save the file, are never reached.
OptionStrikesAnswered ==
    /\ ppc = "opt_strikes"
    /\ \/ OptionFails("FetchError")
       \/ \E envelope \in Envelopes(ShortListings) :
            IF ParseRaises(envelope)
            THEN OptionFails("ApiError")
            ELSE IF get_strikes(parse_response(envelope)) = <<>>
                 THEN GoToOption(p_j + 1) /\ UNCHANGED error_log
                 ELSE OptionFails("AttributeError")
    /\ UNCHANGED <<p_symbols, p_date, p_i, p_outcomes, p_opt_symbols, files,
                   workerVars>>
    /\ UNCHANGED exceptBatch

NextPipeline ==
    UnderlyingAnswered \/ OptionExpirationsAnswered \/ OptionStrikesAnswered

SpecPipeline == InitPipeline /\ [][NextPipeline]_vars

\* The batch specification: a worker of the bulk download, or a run of the
\* underlying pipeline.
InitBatch == InitWorker \/ InitPipeline

NextBatch == NextWorker \/ NextPipeline

SpecBatch == InitBatch /\ [][NextBatch]_vars

----------------------------------------------------------------------------
(* corrector.py: fix_ohlc_files, the repair of the Parquet files already   *)
(* written under data_dir.                                                 *)

\* The paths of the Parquet files: (symbol directory, file name).
FixPaths == {<<"SPX", "x">>, <<"SPX", "y">>, <<"AAPL", "x">>}

\* What a file holds: a table read_parquet returns, or bytes it raises on.
StoredTable(t) == [readable |-> TRUE, table |-> t]
Unreadable == [readable |-> FALSE, table |-> NoTable]

\* The tables of the files: one with a zero to repair, one in order, one
\* with no row, one with no price column.
StoredTables ==
    {[cols |-> <<"close">>, rows |-> <<[close |-> 0], [close |-> 1]>>],
     [cols |-> <<"close">>, rows |-> <<[close |-> 1], [close |-> 1]>>],
     [cols |-> <<"close">>, rows |-> <<>>],
     [cols |-> <<"timestamp", "volume">>,
      rows |-> <<[timestamp |-> 0, volume |-> 0]>>]}

FileContents == {StoredTable(t) : t \in StoredTables} \cup {Unreadable}

\* symbol_dir.rglob("*.parquet"): the files under the symbol's directory;
\* none when the directory does not exist (lines 49-50).
FilesOf(sym) == {path \in DOMAIN disk : path[1] = sym}

InitFix ==
    /\ IdleExcept("files")
    /\ fix_symbols \in PipelineLists
    /\ \E paths \in SUBSET FixPaths : disk \in [paths -> FileContents]
    /\ fix_pc = IF fix_symbols = <<>> THEN "finished" ELSE "checking"
    /\ fix_i = 1
    /\ fix_pending = {}
    /\ fix_log = <<>>
    /\ total_files_fixed = 0

\* The for loop over symbols goes to its next symbol.
NextSymbol ==
    /\ fix_i' = fix_i + 1
    /\ fix_pc' = IF fix_i < Len(fix_symbols) THEN "checking" ELSE "finished"

\* Lines 46-52: the directory of the symbol is looked up and its files are
\* listed; a symbol with no directory or no file is passed over.
CheckSymbol ==
    /\ fix_pc = "checking"
    /\ fix_pending' = FilesOf(fix_symbols[fix_i])
    /\ IF fix_pending' = {}
       THEN NextSymbol
       ELSE fix_pc' = "files" /\ UNCHANGED fix_i
    /\ UNCHANGED <<fix_symbols, disk, fix_log, total_files_fixed>>
    /\ UNCHANGED exceptFix

\* Lines 52-63: one file of the symbol, in the order rglob yields them: it
\* is read and repaired, and written back and logged when the repair
\* changed it; an exception is logged and the loop goes on.
FixFile ==
    /\ fix_pc = "files"
    /\ \E path \in fix_pending :
          /\ fix_pending' = fix_pending \ {path}
          /\ IF ~disk[path].readable
             THEN /\ fix_log' = Append(fix_log, [level |-> "error",
                                                 file |-> path])
                  /\ UNCHANGED <<disk, total_files_fixed>>
             ELSE LET df_original == disk[path].table
                      df_fixed == fix_dataframe(df_original)
                  IN  IF df_original = df_fixed
                      THEN UNCHANGED <<disk, fix_log, total_files_fixed>>
                      ELSE /\ disk' = [disk EXCEPT
                                          ![path] = StoredTable(df_fixed)]
                           /\ fix_log' = Append(fix_log, [level |-> "info",
                                                          file |-> path])
                           /\ total_files_fixed' = total_files_fixed + 1
          /\ IF fix_pending' = {}
             THEN NextSymbol
             ELSE UNCHANGED <<fix_pc, fix_i>>
    /\ UNCHANGED fix_symbols
    /\ UNCHANGED exceptFix

NextFix == CheckSymbol \/ FixFile

SpecFix == InitFix /\ [][NextFix]_vars

----------------------------------------------------------------------------
(* utils.py, client.py, bulk.py: the audit files under the worker          *)
(* processes of the pool.  Every process makes a ThetaClient of its own,   *)
(* and every client names the same two files of the working directory.     *)

\* The processes of the pool.
Procs == 1..MaxProcs

StatsFile == "request_stats.csv"
AuditFile == "retry_audit.csv"
SinkFiles == {StatsFile, AuditFile}

\* self.headers of the class that owns the file.
HeaderRow(f) ==
    IF f = StatsFile
    THEN [header |-> <<"timestamp", "endpoint", "duration", "status_code">>]
    ELSE [header |-> <<"timestamp", "endpoint", "retry_count", "error_message">>]

\* A file that does not exist.
NoFile == [exists |-> FALSE, rows |-> <<>>]

\* Lines 31 and 49: open(self.filename, 'w') creates the file or truncates
\* it; it exists and is empty from here on.
Opened == [exists |-> TRUE, rows |-> <<>>]

\* What is left of a row whose first bytes were overwritten.
Fragment(row) == [fragment |-> row.at]

\* Lines 32-33 and 50-51: writerow(self.headers) and the close of the
\* file write the header at offset 0 of a descriptor that is not in append
\* mode, over what other processes wrote since the open.  Over a header
\* it changes nothing.  Over a row, which may be longer or shorter than
\* the header but never by as much as a row, the row is cut to its tail,
\* or ends where the header ends, or is overwritten whole together with
\* the head of the row after it.
HeaderOver(rows, f) ==
    IF rows = <<>> THEN {<<HeaderRow(f)>>}
    ELSE IF "header" \in DOMAIN rows[1] THEN {rows}
    ELSE {<<HeaderRow(f), Fragment(rows[1])>> \o Tail(rows),
          <<HeaderRow(f)>> \o Tail(rows),
          IF Len(rows) = 1 THEN <<HeaderRow(f)>>
          ELSE <<HeaderRow(f), Fragment(rows[2])>> \o Tail(Tail(rows))}

\* A file as _ensure_file_exists leaves it when no other process writes:
\* the header alone.
Created(f) == [exists |-> TRUE, rows |-> <<HeaderRow(f)>>]

\* Lines 36-38 and 54-56: open(self.filename, 'a') and writerow(row).
Appended(file, row) == [exists |-> TRUE, rows |-> Append(file.rows, row)]

\* The row of add_stat and the row of log_retry of attempt n of process p;
\* (p, n) stands for the timestamp and the endpoint of the row.
StatRow(p, n, status) == [at |-> <<p, n>>, status_code |-> status]

RetryRow(p, n, exception) ==
    [at |-> <<p, n>>, retry_count |-> 1, error_message |-> exception]

\* What the attempts of a worker end with.
SinkOutcomes ==
    {TimeoutOutcome, ResponseOutcome(500, NotJson),
     ResponseOutcome(200, [response |-> <<>>])}

\* The directory holds none of the two files, or both with their headers.
InitSinks ==
    /\ IdleExcept("sinks")
    /\ proc_pc = [p \in Procs |-> "stats"]
    /\ proc_fetches = [p \in Procs |-> 0]
    /\ proc_raised = [p \in Procs |-> ""]
    /\ \/ sink = [f \in SinkFiles |-> NoFile]
       \/ sink = [f \in SinkFiles |-> Created(f)]

\* _ensure_file_exists, line 30 or 48: os.path.exists(self.filename).
EnsureChecks(p, f, at, absent, present) ==
    /\ proc_pc[p] = at
    /\ proc_pc' = [proc_pc EXCEPT ![p] =
                      IF sink[f].exists THEN present ELSE absent]
    /\ UNCHANGED <<proc_fetches, proc_raised, sink>>
    /\ UNCHANGED exceptSinks

\* _ensure_file_exists, line 31 or 49: the file is opened for writing.
EnsureOpens(p, f, at, then) ==
    /\ proc_pc[p] = at
    /\ sink' = [sink EXCEPT ![f] = Opened]
    /\ proc_pc' = [proc_pc EXCEPT ![p] = then]
    /\ UNCHANGED <<proc_fetches, proc_raised>>
    /\ UNCHANGED exceptSinks

\* _ensure_file_exists, lines 32-33 or 50-51: the header is written and
\* the file closed.
EnsureWritesHeader(p, f, at, then) ==
    /\ proc_pc[p] = at
    /\ \E written \in HeaderOver(sink[f].rows, f) :
          sink' = [sink EXCEPT ![f] = [exists |-> TRUE, rows |-> written]]
    /\ proc_pc' = [proc_pc EXCEPT ![p] = then]
    /\ UNCHANGED <<proc_fetches, proc_raised>>
    /\ UNCHANGED exceptSinks

\* client.py line 15: RequestStats().
StatsCheck(p) == EnsureChecks(p, StatsFile, "stats", "create_stats", "audit")

StatsOpen(p) == EnsureOpens(p, StatsFile, "create_stats", "head_stats")

StatsHeader(p) == EnsureWritesHeader(p, StatsFile, "head_stats", "audit")

\* client.py line 16: RetryAuditLog().
AuditCheck(p) == EnsureChecks(p, AuditFile, "audit", "create_audit", "ready")

AuditOpen(p) == EnsureOpens(p, AuditFile, "create_audit", "head_audit")

AuditHeader(p) == EnsureWritesHeader(p, AuditFile, "head_audit", "ready")

\* One attempt of timed_get in the worker, up to its first file call
\* (utils.py lines 67-78).  A response appends its row to the statistics
\* file (line 71); when the attempt then raises (line 74, or line 75 on a
\* body that is not JSON), the row of the retry file is still to be
\* written.  An exception of client.get appends its row to the retry file
\* (line 77), the one file call of the attempt.
SinkAttempt(p) ==
    /\ proc_pc[p] = "ready"
    /\ proc_raised[p] = ""
    /\ proc_fetches[p] < MaxProcFetches
    /\ \E outcome \in SinkOutcomes :
          LET n == proc_fetches[p] + 1
          IN  IF outcome.kind = "response"
              THEN /\ sink' = [sink EXCEPT ![StatsFile] =
                                  Appended(sink[StatsFile],
                                           StatRow(p, n, outcome.status))]
                   /\ proc_raised' = [proc_raised EXCEPT ![p] =
                                         AttemptRaises(outcome)]
                   /\ proc_fetches' =
                         [proc_fetches EXCEPT ![p] =
                             IF AttemptRaises(outcome) = "" THEN n
                             ELSE proc_fetches[p]]
              ELSE /\ sink' = [sink EXCEPT ![AuditFile] =
                                  Appended(sink[AuditFile],
                                           RetryRow(p, n, AttemptRaises(outcome)))]
                   /\ proc_fetches' = [proc_fetches EXCEPT ![p] = n]
                   /\ UNCHANGED proc_raised
    /\ UNCHANGED proc_pc
    /\ UNCHANGED exceptSinks

\* Lines 76-78: the except clause of an attempt that raised after its
\* response: log_retry appends the row of the exception, and the attempt
\* is over.
SinkLogsRetry(p) ==
    /\ proc_pc[p] = "ready"
    /\ proc_raised[p] # ""
    /\ sink' = [sink EXCEPT ![AuditFile] =
                   Appended(sink[AuditFile],
                            RetryRow(p, proc_fetches[p] + 1, proc_raised[p]))]
    /\ proc_raised' = [proc_raised EXCEPT ![p] = ""]
    /\ proc_fetches' = [proc_fetches EXCEPT ![p] = proc_fetches[p] + 1]
    /\ UNCHANGED proc_pc
    /\ UNCHANGED exceptSinks

\* bulk.py lines 90-96: the worker ends.
ProcEnds(p) ==
    /\ proc_pc[p] = "ready"
    /\ proc_raised[p] = ""
    /\ proc_pc' = [proc_pc EXCEPT ![p] = "done"]
    /\ UNCHANGED <<proc_fetches, proc_raised, sink>>
    /\ UNCHANGED exceptSinks

\* bulk.py lines 113-114: the processes of the pool run in parallel.
NextSinks ==
    \E p \in Procs :
        \/ StatsCheck(p) \/ StatsOpen(p) \/ StatsHeader(p)
        \/ AuditCheck(p) \/ AuditOpen(p) \/ AuditHeader(p)
        \/ SinkAttempt(p) \/ SinkLogsRetry(p) \/ ProcEnds(p)

SpecSinks == InitSinks /\ [][NextSinks]_vars

----------------------------------------------------------------------------
(* The whole model: any of the components at work. *)

Init ==
    \/ InitRepair \/ InitSelect \/ InitDerive \/ InitCandles \/ InitFetch
    \/ InitRealtime
    \/ InitSession \/ InitBatch \/ InitSinks \/ InitFix

Next ==
    \/ NextRepair \/ NextSelect \/ NextDerive \/ NextPick \/ NextCandles
    \/ NextFetch
    \/ NextRealtime \/ NextSession \/ NextBatch \/ NextSinks \/ NextFix

Spec == Init /\ [][Next]_vars

----------------------------------------------------------------------------
(* Claims about the derivation *)

\* The Greeks requests issued so far.
GreeksRequests ==
    LET IsGreeks(q) == q.kind = "greeks"
    IN  SelectSeq(requests, IsGreeks)

\* The search is exhausted: each of the first two expirations either had
\* no strikes or got a Greeks request for each right.
SearchExhausted ==
    /\ skipped \subseteq DOMAIN FirstTwo(exps)
    /\ Len(GreeksRequests) =
          Len(Rights) * (Len(FirstTwo(exps)) - Cardinality(skipped))

\* No row of the response holds a non-missing underlying price: it is
\* empty, lacks the field, or holds it missing in every row.
NoValidPrice(items) ==
    \A i \in DOMAIN Flatten(items) :
        \/ "underlying_price" \notin DOMAIN Flatten(items)[i]
        \/ isna(Flatten(items)[i]["underlying_price"])

\* The call ended while handling the response of a Greeks request.
EndedOnGreeksResponse ==
    /\ dpc = "raised"
    /\ requests # <<>>
    /\ requests[Len(requests)].kind = "greeks"
    /\ error \notin {"FetchError", "ApiError"}

\* C10: the call fails with the derivation-failed error only once the
\* search over the first two expirations and both rights is exhausted, and
\* a Greeks response without a valid underlying price (empty, without the
\* field, or missing in every row) ends the call with no other error.
C10_OnlyDerivationFailedAfterSearch ==
    /\ (dpc = "raised" /\ error = "UnderlyingDerivationFailed")
          => SearchExhausted
    /\ (EndedOnGreeksResponse /\ NoValidPrice(raw_items))
          => error = "UnderlyingDerivationFailed"

\* The (expiration, right) pair of each Greeks request issued so far.
GreeksPairs ==
    [k \in DOMAIN GreeksRequests |->
        <<GreeksRequests[k].exp, GreeksRequests[k].right>>]

\* The pairs (exp, Call), (exp, Put) of the expirations at the given
\* positions of the listing, by ascending position.
RECURSIVE PairsOf(_)
PairsOf(positions) ==
    IF positions = {} THEN <<>>
    ELSE LET i == SetMin(positions)
         IN  <<<<exps[i], "C">>, <<exps[i], "P">>>> \o PairsOf(positions \ {i})

\* The positions of the first two listed expirations.
FirstTwoPositions == {i \in DOMAIN exps : i <= 2}

IsPrefix(p, q) == Len(p) <= Len(q) /\ p = SubSeq(q, 1, Len(p))

\* A row of the response holds a non-missing underlying price.
HasValidPrice(items) == ~NoValidPrice(items)

\* The step is a Greeks request answered with a parsed response.
GreeksAnswered ==
    /\ dpc = "greeks"
    /\ ~(dpc' = "raised" /\ error' \in {"FetchError", "ApiError"})

\* C11: the Greeks requests are issued in the order (exp1, Call),
\* (exp1, Put), (exp2, Call), (exp2, Put) over at most the first two listed
\* expirations, an expiration with no strikes gets no Greeks request, and
\* the first response with a row holding a valid underlying price ends the
\* call, with no strike or Greeks request after it.
C11_GreeksRequestOrder ==
    /\ [](IsPrefix(GreeksPairs, PairsOf(FirstTwoPositions \ skipped)))
    /\ [][(GreeksAnswered /\ HasValidPrice(raw_items'))
              => (dpc' = "returned" /\ UNCHANGED requests)]_vars
    /\ [][(dpc \in {"returned", "raised"}) => UNCHANGED requests]_vars

\* Both rights of two distinct expirations were asked, in order, and the
\* last response returned a price.
C11_Witness ==
    /\ dpc = "returned"
    /\ Len(exps) >= 2 /\ exps[1] # exps[2]
    /\ Len(GreeksRequests) = 4
    /\ HasValidPrice(raw_items)

\* The list is in ascending order (equal neighbours allowed).
IsAscending(q) == \A i, j \in DOMAIN q : i < j => q[i] <= q[j]

\* The last request issued is a Greeks request.
LastIsGreeks ==
    /\ requests # <<>>
    /\ requests[Len(requests)].kind = "greeks"

\* C12: the strike used for an expiration is the element at index
\* floor(n / 2) (counting from 0) of the ascending list of its n strikes,
\* 100 for the listing 90, 95, 100, 105, 110, and it is the strike of the
\* Greeks requests of that expiration, also when an earlier expiration was
\* skipped for having no strikes.
C12_MiddleStrikeUsed ==
    /\ strikes # <<>> =>
          /\ IsAscending(strikes)
          /\ target_strike = strikes[(Len(strikes) \div 2) + 1]
    /\ LastIsGreeks =>
          requests[Len(requests)].strike = strikes[(Len(strikes) \div 2) + 1]
    /\ strikes = <<90, 95, 100, 105, 110>> => target_strike = 100

\* The first expiration had no strikes and the second, listing the five
\* strikes of the scenario, got a Greeks request at strike 100.
C12_Witness ==
    /\ skipped = {1}
    /\ exp_i = 2
    /\ strikes = <<90, 95, 100, 105, 110>>
    /\ LastIsGreeks
    /\ requests[Len(requests)].strike = 100

----------------------------------------------------------------------------
(* Claims about a fetch *)

\* The HTTP attempts of fetch call c, in order.
AttemptsOf(c) ==
    LET OfCall(entry) == entry.call = c
    IN  SelectSeq(http_log, OfCall)

\* The attempt ended with a timeout or a connection error.
TimedOutOrNoConnection(entry) ==
    entry.outcome.kind \in {"TimeoutException", "ConnectError"}

\* The attempt got a response with a status other than 200.
GotNon200(entry) ==
    /\ entry.outcome.kind = "response"
    /\ entry.outcome.status # 200

\* The attempt is the last one of its fetch call so far.
LastOfItsCall(k) ==
    \A j \in DOMAIN http_log : j > k => http_log[j].call # http_log[k].call

\* The attempt is the one the current fetch call has just made.
JustMade(k) == k = Len(http_log) /\ http_log[k].call = calls

\* C16: a fetch call makes at most 3 HTTP attempts, numbered from 1 in
\* every call; an attempt is followed by another only after a timeout or a
\* connection error, so the first attempt that succeeds is the last; a
\* timeout or connection error is raised to the caller only by the third
\* attempt, and the third failed attempt raises.
C16_AtMostThreeAttempts ==
    \A c \in 1..calls :
        LET a == AttemptsOf(c)
        IN  /\ Len(a) <= 3
            /\ \A k \in DOMAIN a : a[k].attempt = k
            /\ \A k \in DOMAIN a : k < Len(a) => TimedOutOrNoConnection(a[k])
            /\ (c = calls /\ fpc = "attempt") =>
                  \A k \in DOMAIN a : TimedOutOrNoConnection(a[k])
            /\ (c = calls /\ fpc = "raised"
                    /\ ferror \in {"TimeoutException", "ConnectError"}) =>
                  Len(a) = 3 /\ a[3].outcome.kind = ferror
            /\ (c = calls /\ Len(a) = 3 /\ TimedOutOrNoConnection(a[3])) =>
                  fpc = "raised"

\* The first call raised after three failed attempts and the second
\* returned from its second attempt.
C16_Witness ==
    /\ calls = 2
    /\ Len(AttemptsOf(1)) = 3
    /\ TimedOutOrNoConnection(AttemptsOf(1)[3])
    /\ Len(AttemptsOf(2)) = 2
    /\ fpc = "returned"

\* C17, as claimed: a response with a status other than 200 is retried
\* like a timeout, and surfaces only after the third attempt.
C17_Non200RetriedToThree ==
    (fpc = "raised" /\ ferror = "HTTPStatusError") =>
        Len(AttemptsOf(calls)) = 3

\* C17, amended: a response with a status other than 200 is not retried;
\* the attempt that receives it is the last of its call and raises the
\* status error to the caller.
C17_Non200NotRetried ==
    /\ \A k \in DOMAIN http_log :
          GotNon200(http_log[k]) =>
              /\ LastOfItsCall(k)
              /\ JustMade(k) => (fpc = "raised" /\ ferror = "HTTPStatusError")
    /\ (fpc = "raised" /\ ferror = "HTTPStatusError") =>
          GotNon200(http_log[Len(http_log)])

\* A call raised the status error from its first attempt.
C17_Witness ==
    /\ fpc = "raised"
    /\ ferror = "HTTPStatusError"
    /\ Len(AttemptsOf(calls)) = 1
    /\ GotNon200(http_log[Len(http_log)])

\* The call got the body from the attempt it has just made, and made no
\* attempt after it.
BodyJustReceived ==
    /\ http_log # <<>>
    /\ JustMade(Len(http_log))
    /\ http_log[Len(http_log)].outcome.kind = "response"
    /\ http_log[Len(http_log)].outcome.status = 200
    /\ http_log[Len(http_log)].outcome.json = body

\* The call ended in the API error with none of the rows used.
SurfacedAsApiError ==
    /\ fpc = "raised"
    /\ ferror = "ApiError"
    /\ rows_used = <<>>

\* C18, as claimed: a body of a 200 response that carries an error field
\* is a failure, surfaced by the attempt that received it with no retry,
\* and none of its rows are used.
C18_ErrorFieldIsFailure ==
    (body # NoBody /\ "error" \in DOMAIN body) =>
        (BodyJustReceived /\ SurfacedAsApiError)

\* C18, amended: a body of a 200 response that carries a non-empty error
\* field is a failure, surfaced by the attempt that received it with no
\* retry, and none of its rows are used.
C18_NonEmptyErrorFieldIsFailure ==
    (body # NoBody /\ "error" \in DOMAIN body /\ body.error # "") =>
        (BodyJustReceived /\ SurfacedAsApiError)

\* The only attempt of a call got a 200 response with rows and an error
\* message.
C18_Witness ==
    /\ body = [response |-> <<100>>, error |-> "Invalid symbol"]
    /\ Len(AttemptsOf(calls)) = 1
    /\ SurfacedAsApiError

----------------------------------------------------------------------------
(* Claims about the realtime feed *)

\* The step handles the answer of a poll request, a failed fetch.
FetchFailedStep ==
    /\ Len(rt_responses') = Len(rt_responses) + 1
    /\ rt_responses'[Len(rt_responses')] = [raised |-> "FetchError"]

\* C13: a fetch failure for one tracked symbol does not abort the poll
\* cycle: the next symbol of the cycle is polled, or, after the last
\* symbol, the loop goes on to its sleep.
C13_FetchFailureDoesNotAbortCycle ==
    [][FetchFailedStep =>
          IF sym_i < Len(rt_symbols)
          THEN /\ rt_pc' = "polling"
               /\ sym_i' = sym_i + 1
               /\ Len(rt_requests') = Len(rt_requests) + 1
          ELSE rt_pc' = "sleeping"]_vars

\* C14: once the task is cancelled, while it polls or while it sleeps,
\* run_forever gets to its end; the client is closed by the time
\* run_forever has ended; and no poll request is issued after the close.
C14_CancelStopsAndCloses ==
    /\ [](cancelled => <>(rt_pc = "stopped"))
    /\ [](rt_pc \in {"stopped", "failed"} => client_closed)
    /\ [][client_closed => UNCHANGED rt_requests]_vars

\* The task was cancelled while a poll request was awaited, and
\* run_forever has returned with the client closed.
C14_Witness ==
    /\ cancelled
    /\ rt_pc = "stopped"
    /\ client_closed
    /\ Len(rt_requests) = Len(rt_responses) + 1

\* No two rows of the table have the same (timestamp, strike, right).
NoDuplicateRows(rows) ==
    \A i, j \in DOMAIN rows :
        i # j => <<rows[i].timestamp, rows[i].strike, rows[i].right>>
                    # <<rows[j].timestamp, rows[j].strike, rows[j].right>>

\* The session table of every key is free of duplicates.
SessionRowsUnique ==
    \A key \in DOMAIN session_data : NoDuplicateRows(session_data[key])

\* Every row of the last batch that is the last one of its (timestamp,
\* strike, right) in the batch is in the table of its key.
LatestRowsKept ==
    updates > 0 =>
        \A i \in DOMAIN upd_df :
            (\A j \in DOMAIN upd_df :
                j > i => <<upd_df[j].timestamp, upd_df[j].strike, upd_df[j].right>>
                            # <<upd_df[i].timestamp, upd_df[i].strike, upd_df[i].right>>)
            => \E k \in DOMAIN session_data[upd_key] :
                  session_data[upd_key][k] = upd_df[i]

\* A key of the session table stays in it.
KeysStay == [][DOMAIN session_data \subseteq DOMAIN session_data']_vars

\* C15: after any sequence of updates no session table holds two rows with
\* the same (timestamp, strike, right), right after the first batch stored
\* for a key included; of the rows fetched for one (timestamp, strike,
\* right) the most recently fetched is kept; and a key once present is
\* never removed.
C15_SessionRowsUniqueLatestKept ==
    /\ []SessionRowsUnique
    /\ []LatestRowsKept
    /\ KeysStay

----------------------------------------------------------------------------
(* Claims about the batch orchestration *)

\* The worker asked for the expirations of the day.
DayRequested(d) ==
    \E k \in DOMAIN w_requests :
        w_requests[k] = [kind |-> "expirations", day |-> d]

\* The record was logged by run_underlying_pipeline.
LoggedByUnderlying(record) == record.half = "underlying"

\* run_option_pipeline asked for the expirations of the symbol.
OptionSymbolRequested(sym) ==
    \E k \in DOMAIN p_requests :
        p_requests[k] = [kind |-> "expirations", symbol |-> sym]

\* C19: a failure or a no-data outcome for one day or one symbol is caught
\* and logged and never aborts the batch: a worker that has ended has
\* gone through every trading day of its range, and a pipeline run that
\* has ended has gone through every symbol, each failure logged.
C19_FailureNeverAbortsBatch ==
    /\ (wpc = "done" /\ trading_days # <<>>) =>
          \A i \in DOMAIN trading_days : DayRequested(trading_days[i])
    /\ ppc = "finished" =>
          /\ Len(p_outcomes) = Len(p_symbols)
          /\ Len(SelectSeq(error_log, LoggedByUnderlying)) =
                Cardinality({i \in DOMAIN p_outcomes :
                                "raised" \in DOMAIN p_outcomes[i]})
          /\ \A j \in DOMAIN p_opt_symbols :
                OptionSymbolRequested(p_opt_symbols[j])

\* The file was written for a symbol whose fetch returned a table, and
\* holds as many rows as that table, at least one.
FromSuccessfulFetch(file) ==
    /\ file.position \in DOMAIN p_outcomes
    /\ "data" \in DOMAIN p_outcomes[file.position]
    /\ file.name = <<p_symbols[file.position], p_date>>
    /\ Len(file.table.rows) = Len(p_outcomes[file.position].data.rows)
    /\ Len(file.table.rows) >= 1
    /\ Len(file.table.cols) >= 1

\* A file is written only from a successful fetch with at least one row,
\* and a failed fetch writes none.
WrittenOnlyWhenAssembled ==
    /\ \A k \in DOMAIN files : FromSuccessfulFetch(files[k])
    /\ \A i \in DOMAIN p_outcomes :
          "raised" \in DOMAIN p_outcomes[i] =>
              \A k \in DOMAIN files : files[k].position # i

\* C20, as claimed: a file is written only after its table has been
\* assembled from a successful response and has at least one row, a failed
\* or empty fetch writes no file, and each file is written at most once
\* per run.
C20_WrittenOnceWhenAssembled ==
    /\ WrittenOnlyWhenAssembled
    /\ \A j, k \in DOMAIN files : j # k => files[j].name # files[k].name

\* C20, amended: a file is written only after its table has been assembled
\* from a successful response and has at least one row, a failed or empty
\* fetch writes no file, and each file is written at most once for each
\* entry of the symbols list, so at most once per run when the symbols
\* listed are distinct.
C20_WrittenOncePerEntryWhenAssembled ==
    /\ WrittenOnlyWhenAssembled
    /\ \A j, k \in DOMAIN files :
          j # k => /\ files[j].position # files[k].position
                   /\ p_symbols[files[j].position] # p_symbols[files[k].position]
                         => files[j].name # files[k].name

\* The fetch of the first of two symbols failed and the fetch of the
\* second returned a table, which is the one file written.
C20_Witness ==
    /\ ppc = "finished"
    /\ Len(p_symbols) = 2
    /\ "raised" \in DOMAIN p_outcomes[1]
    /\ Len(files) = 1
    /\ files[1].name = <<p_symbols[2], p_date>>

----------------------------------------------------------------------------
(* Claims about the passes of repair *)

\* The table after pass 1, and after the intra-row pass.
ZeroReplaced(t) == ReplaceZero(t, PriceCols(t))

AfterIntraRow(t) == IntraRowRepair(ZeroReplaced(t), PriceCols(t))

\* Some but not all designated cells of the row are missing.
PartlyMissing(row, cols) ==
    /\ \E c \in Range(cols) : isna(row[c])
    /\ \E c \in Range(cols) : notna(row[c])

\* The row has designated cells and all of them are missing.
FullyMissing(row, cols) ==
    /\ cols # <<>>
    /\ \A c \in Range(cols) : isna(row[c])

\* The value of the first non-missing designated column of the row, in
\* declaration order.
FirstDesignatedValid(row, cols) ==
    LET Valid(c) == notna(row[c])
    IN  row[SelectSeq(cols, Valid)[1]]

\* The fill value of a partly missing row: its close when valid, otherwise
\* its first non-missing designated cell.
DesignatedFill(row, cols) ==
    IF "close" \in Range(cols) /\ notna(row["close"])
    THEN row["close"]
    ELSE FirstDesignatedValid(row, cols)

\* C21: in the intra-row pass every missing designated cell of a partly
\* missing row is filled with the row's close when close is valid and
\* otherwise with the first non-missing designated cell of the row, never
\* with a non-designated field; the cells that were valid are unchanged; a
\* row with all designated cells missing is left as it was by this pass.
C21_IntraRowFillFromDesignated ==
    rpc # "input" =>
        LET cols == PriceCols(df)
            before == ZeroReplaced(df)
            after == AfterIntraRow(df)
        IN  \A i \in DOMAIN df.rows :
                /\ PartlyMissing(before.rows[i], cols) =>
                      \A c \in DOMAIN before.rows[i] :
                          IF c \in Range(cols) /\ isna(before.rows[i][c])
                          THEN /\ after.rows[i][c] =
                                      DesignatedFill(before.rows[i], cols)
                               /\ out.rows[i][c] = after.rows[i][c]
                          ELSE after.rows[i][c] = before.rows[i][c]
                /\ FullyMissing(before.rows[i], cols) =>
                      after.rows[i] = before.rows[i]

\* The rows after row i, and the rows before it, that hold a non-missing
\* value in column c when the gap pass starts.
LaterValid(t, i, c) == {j \in DOMAIN t.rows : j > i /\ notna(t.rows[j][c])}

EarlierValid(t, i, c) == {j \in DOMAIN t.rows : j < i /\ notna(t.rows[j][c])}

\* C22: in the gap pass a row whose designated cells are all missing gets,
\* in each designated column, the value of the nearest later row that holds
\* a value in that column, and the value of the nearest earlier such row
\* only when no later row holds one; so every row of a run of fully missing
\* rows between two valid rows takes the values of the later row.
C22_GapFillLaterThenEarlier ==
    rpc # "input" =>
        LET cols == PriceCols(df)
            t == AfterIntraRow(df)
        IN  \A i \in DOMAIN df.rows :
                FullyMissing(t.rows[i], cols) =>
                    \A c \in Range(cols) :
                        IF LaterValid(t, i, c) # {}
                        THEN out.rows[i][c] = t.rows[SetMin(LaterValid(t, i, c))][c]
                        ELSE IF EarlierValid(t, i, c) # {}
                        THEN out.rows[i][c] = t.rows[SetMax(EarlierValid(t, i, c))][c]
                        ELSE isna(out.rows[i][c])

\* Three fully missing rows (a zero among them) between two valid rows all
\* took the value of the later row.
C22_Witness ==
    /\ rpc = "fixed"
    /\ df.cols = <<"close">>
    /\ Len(df.rows) = 5
    /\ df.rows[1]["close"] = 1
    /\ df.rows[2]["close"] = NaN
    /\ df.rows[3]["close"] = 0
    /\ df.rows[4]["close"] = NaN
    /\ df.rows[5]["close"] = 2
    /\ \A i \in 2..5 : out.rows[i]["close"] = 2
    /\ out.rows[1]["close"] = 1

----------------------------------------------------------------------------
(* Claims about the calendar helpers *)

\* The available dates after d and within the horizon.
HorizonWindow(d, avail) == {x \in avail : d < x /\ x <= d + 45}

\* C23: get_next_valid_vix_expiration(currentDate, available) is the
\* smallest available date d with currentDate < d <= currentDate + 45 days,
\* and none when no available date lies in that window; it is never
\* currentDate and never a date past the horizon; the search ends, and in
\* the fallback of the VIX branch its result is the only target.
C23_NextValidWithinHorizon ==
    spc = "done" =>
        LET next_exp == get_next_valid_vix_expiration(current_date, available)
            window == HorizonWindow(current_date, available)
        IN  /\ window = {} => next_exp = NoDate
            /\ window # {} => next_exp = SetMin(window)
            /\ next_exp # current_date
            /\ next_exp # NoDate =>
                  (current_date < next_exp /\ next_exp <= current_date + 45)
            /\ (symbol = "VIX" /\ weekday(current_date) \in 2..6) =>
                  targets = IF next_exp = NoDate THEN <<>> ELSE <<next_exp>>

\* The search from a Thursday passed over the Thursday itself and found
\* the date on the last day of the horizon, with a date just past it listed.
C23_Witness ==
    /\ spc = "done"
    /\ symbol = "VIX"
    /\ weekday(current_date) = 3
    /\ available = {current_date, current_date + 45, current_date + 46}
    /\ targets = <<current_date + 45>>

\* C24: last_trading_day_of_week(current, closed) is the latest of Monday
\* to Friday of current's week that is not a closed date, whether current
\* is a weekday or a weekend day; it is none exactly when all five are
\* closed, and then the selection still returns and holds no weekly target:
\* for the same-day + weekly symbols nothing but currentDate when available.
C24_LastTradingDayOfWeek ==
    spc = "done" =>
        LET weekly == last_trading_day_of_week(current_date, closed_dates)
            open == WeekdaysOfWeek(current_date) \ closed_dates
        IN  /\ (weekly = NoDate) <=> (open = {})
            /\ open # {} => weekly = SetMax(open)
            /\ (open = {} /\ symbol \in {"SPX", "SPXW", "SPY", "QQQ"}) =>
                  Range(targets) = {current_date} \cap available

\* On a Saturday of a week whose five weekdays are closed, with the closed
\* Friday and the Saturday listed, only the Saturday is a target.
C24_Witness ==
    /\ spc = "done"
    /\ symbol = "SPX"
    /\ weekday(current_date) = 5
    /\ closed_dates = WeekdaysOfWeek(current_date)
    /\ available = {current_date - 1, current_date}
    /\ last_trading_day_of_week(current_date, closed_dates) = NoDate
    /\ targets = <<current_date>>

----------------------------------------------------------------------------
(* Claims about the aggregation *)

\* The rows of the response parsed last, nested data rows laid flat.
FlatRows == Flatten(raw_items)

\* The positions of the observations that hold an underlying price.
Priced ==
    {i \in DOMAIN FlatRows :
        /\ "underlying_price" \in DOMAIN FlatRows[i]
        /\ notna(FlatRows[i]["underlying_price"])}

\* The priced observations of the minute that starts at m.
Bucket(m) ==
    {i \in Priced :
        m <= FlatRows[i]["timestamp"] /\ FlatRows[i]["timestamp"] < m + 60000}

\* The starts of the minutes that hold a priced observation.
PricedMinutes ==
    {FlatRows[i]["timestamp"] - (FlatRows[i]["timestamp"] % 60000) : i \in Priced}

\* The prices of the observations of bucket b at its earliest timestamp,
\* and at its latest.
EarliestPrices(b) ==
    {FlatRows[i]["underlying_price"] : i \in
        {i \in b : \A j \in b : FlatRows[i]["timestamp"] <= FlatRows[j]["timestamp"]}}

LatestPrices(b) ==
    {FlatRows[i]["underlying_price"] : i \in
        {i \in b : \A j \in b : FlatRows[i]["timestamp"] >= FlatRows[j]["timestamp"]}}

\* C25: the aggregation yields one row per minute that holds an observation
\* with an underlying price, in ascending time order; open is the price of
\* the earliest observation of the minute, close that of its latest, high
\* the maximum, low the minimum and volume the number of its observations;
\* a row without the underlying price is counted in no minute.
C25_OneCandlePerPricedMinute ==
    candles # NoTable =>
        /\ {candles.rows[k]["timestamp"] : k \in DOMAIN candles.rows}
              = PricedMinutes
        /\ Len(candles.rows) = Cardinality(PricedMinutes)
        /\ \A j, k \in DOMAIN candles.rows :
              j < k => candles.rows[j]["timestamp"] < candles.rows[k]["timestamp"]
        /\ \A k \in DOMAIN candles.rows :
              LET row == candles.rows[k]
                  b == Bucket(row["timestamp"])
                  prices == {FlatRows[i]["underlying_price"] : i \in b}
              IN  /\ row["open"] \in EarliestPrices(b)
                  /\ row["close"] \in LatestPrices(b)
                  /\ row["high"] = SetMax(prices)
                  /\ row["low"] = SetMin(prices)
                  /\ row["volume"] = Cardinality(b)

\* Of three rows that came out of order, the two of the first minute made
\* one candle and the row without a price none.
C25_Witness ==
    /\ dpc = "returned"
    /\ raw_items = <<[timestamp |-> 40000, underlying_price |-> 1],
                     [timestamp |-> 0, underlying_price |-> 2],
                     [timestamp |-> 60000]>>
    /\ candles.rows = <<[timestamp |-> 0, open |-> 2, high |-> 2, low |-> 1,
                         close |-> 1, volume |-> 2]>>

\* a <= b of two cells, false when either is missing.
CellLe(a, b) == notna(a) /\ notna(b) /\ a <= b

\* C28: every row of the table fetch_underlying_ohlc returns has
\* low <= open <= high and low <= close <= high, the rows in which repair
\* replaced zero cells after the aggregation included.
C28_ReturnedCandlesOrdered ==
    dpc = "returned" =>
        \A k \in DOMAIN ohlc.rows :
            /\ CellLe(ohlc.rows[k]["low"], ohlc.rows[k]["open"])
            /\ CellLe(ohlc.rows[k]["open"], ohlc.rows[k]["high"])
            /\ CellLe(ohlc.rows[k]["low"], ohlc.rows[k]["close"])
            /\ CellLe(ohlc.rows[k]["close"], ohlc.rows[k]["high"])

----------------------------------------------------------------------------
(* Claims about the poll cursor *)

\* The start time the next poll of a key sends.
Cursor(times, key) == DictGet(times, key, market_open)

\* The step handles the answer of the poll request of the current symbol.
PollAnsweredStep == Len(rt_responses') = Len(rt_responses) + 1

\* What the poll request was answered with.
Answer == rt_responses'[Len(rt_responses')]

\* The key of the symbol whose poll request is answered.
AnsweredKey == KeyOf(rt_symbols[sym_i])

\* The fetch succeeded and its body holds rows and no error.
AnsweredWithRows ==
    /\ PollAnsweredStep
    /\ "json" \in DOMAIN Answer
    /\ "response" \in DOMAIN Answer.json
    /\ Answer.json.response # <<>>
    /\ ~("error" \in DOMAIN Answer.json /\ Answer.json.error # "")

\* The fetch succeeded and its body holds no row.
AnsweredWithNoRows ==
    /\ PollAnsweredStep
    /\ "json" \in DOMAIN Answer
    /\ ~("error" \in DOMAIN Answer.json /\ Answer.json.error # "")
    /\ ("response" \in DOMAIN Answer.json => Answer.json.response = <<>>)

\* Request k was sent before any poll of its symbol returned rows.
NoCandleBefore(k) ==
    \A j \in DOMAIN rt_responses :
        (j < k /\ rt_requests[j].symbol = rt_requests[k].symbol) =>
            ~ /\ "json" \in DOMAIN rt_responses[j]
              /\ "response" \in DOMAIN rt_responses[j].json
              /\ rt_responses[j].json.response # <<>>

\* C26: the start time a poll sends for a key is the time of day of the
\* last row of the latest successful non-empty fetch of that key, so a
\* fetch that returns rows moves the cursor of its key to the time of day
\* of its last row, and it is 09:30:00 while no candle was ingested; a poll
\* that returns no rows leaves the cursor and the session table unchanged;
\* and the poll of one symbol leaves the cursors of the other keys alone.
C26_CursorFollowsLastCandle ==
    /\ [][AnsweredWithRows =>
             Cursor(last_candle_time', AnsweredKey) =
                 TimeOfDay(Answer.json.response[Len(Answer.json.response)].timestamp)]_vars
    /\ [](\A k \in DOMAIN rt_requests :
             NoCandleBefore(k) => rt_requests[k].start_time = "09:30:00")
    /\ [][AnsweredWithNoRows =>
             UNCHANGED <<last_candle_time, session_data>>]_vars
    /\ [][PollAnsweredStep =>
             \A sym \in TrackedSymbols :
                 KeyOf(sym) # AnsweredKey =>
                     Cursor(last_candle_time', KeyOf(sym))
                         = Cursor(last_candle_time, KeyOf(sym))]_vars

----------------------------------------------------------------------------
(* Claims about the audit files *)

\* The row is a request-stat or retry record, not the header.
IsAuditRecord(row) == "at" \in DOMAIN row

\* C27: the audit files are append-only under parallel workers: a
\* request-stat or retry record that is in its file is in that file in
\* every later state, for every interleaving of workers that make their
\* own client (which creates a file it finds absent) and append records
\* with no lock between them.
C27_AuditRecordsStay ==
    [][\A f \in SinkFiles :
          \A i \in DOMAIN sink[f].rows :
              IsAuditRecord(sink[f].rows[i]) =>
                  \E j \in DOMAIN sink'[f].rows :
                      sink'[f].rows[j] = sink[f].rows[i]]_vars

----------------------------------------------------------------------------
(* Claims about the requests of the bulk worker *)

IsDataRequest(r) == r.kind = "data"
IsExpirationsRequest(r) == r.kind = "expirations"

\* The option-history requests and the listing requests issued so far.
DataRequests == SelectSeq(w_requests, IsDataRequest)
ListingRequests == SelectSeq(w_requests, IsExpirationsRequest)

\* C29: every option-history request of the bulk worker is for a weekday
\* that is not in the closed dates the worker loaded and for an expiration
\* on or after that day; the request in flight is for the day the worker
\* is at and for an expiration of that day's listing; the days are visited
\* in ascending order, and the expirations of one day are requested in
\* ascending order.
C29_RequestsForListedExpirationsInOrder ==
    /\ \A i \in DOMAIN DataRequests :
          /\ weekday(DataRequests[i].day) < 5
          /\ DataRequests[i].day \notin w_closed
          /\ DataRequests[i].exp >= DataRequests[i].day
    /\ wpc = "data" =>
          LET r == w_requests[Len(w_requests)]
          IN  /\ IsDataRequest(r)
              /\ r.day = trading_days[day_i]
              /\ r.exp \in avail_dates(exps_str)
    /\ \A i, j \in DOMAIN ListingRequests :
          i < j => ListingRequests[i].day < ListingRequests[j].day
    /\ \A i, j \in DOMAIN DataRequests :
          i < j =>
              \/ DataRequests[i].day < DataRequests[j].day
              \/ /\ DataRequests[i].day = DataRequests[j].day
                 /\ DataRequests[i].exp <= DataRequests[j].exp

\* The worker of SPX asked for Thursday's data of Thursday's expiration
\* and then of Friday's, both of Thursday's listing, went on to Friday and
\* is asking for Friday's data.
C29_Witness ==
    /\ wpc = "data"
    /\ w_symbol = "SPX"
    /\ trading_days[day_i] = 11
    /\ \E i, j \in DOMAIN DataRequests :
          /\ DataRequests[i].day = 10 /\ DataRequests[i].exp = 10
          /\ DataRequests[j].day = 10 /\ DataRequests[j].exp = 11
          /\ i < j
====
